---- MODULE Spec2Model ----
(***************************************************************************)
(* A model of the DIY-helper tool servers.                                 *)
(*                                                                         *)
(* Part 1: building_codes_server/code_database.py, class CodeDatabase:     *)
(* the loaded collection self.codes and the three query operations         *)
(* search, get_section and get_categories.                                 *)
(*                                                                         *)
(* Representation of Python values                                         *)
(*   str            a sequence of characters, each a one-character string; *)
(*                  "" is <<>>.  The character U+00DF (sharp s) is written *)
(*                  "sz".                                                  *)
(*   Optional[T]    None is <<>> and a value v is Some(v) = <<v>>; used    *)
(*                  for arguments that may be None and for dict.get(key).  *)
(*   dict           a record; a key the dict lacks is outside its DOMAIN.  *)
(*   list           a sequence.                                            *)
(***************************************************************************)
EXTENDS Integers, Sequences, FiniteSets, TLC

VARIABLES codes, op, args, ret, memo, data_file_found, mock_products,
          suppliers, tasks,
          conversation_history, response, assistant_content, tool_results,
          content_block, executed, model_calls, pc

\* the state of Part 4, a ProductDatabase, and of Part 6, a chat
database_vars == <<suppliers, tasks>>

chat_vars ==
  <<conversation_history, response, assistant_content, tool_results,
    content_block, executed, model_calls, pc>>

vars ==
  <<codes, op, args, ret, memo, data_file_found, mock_products,
    database_vars, chat_vars>>

\* no ProductDatabase has been made
NoDatabase == suppliers = <<>> /\ tasks = <<>>

\* no chat is under way
NoChat ==
  /\ conversation_history = <<>>
  /\ response = <<>>
  /\ assistant_content = <<>>
  /\ tool_results = <<>>
  /\ content_block = 0
  /\ executed = <<>>
  /\ model_calls = 0
  /\ pc = "none"

-----------------------------------------------------------------------------
(* Bounds of the model *)

\* largest number of records in the loaded collection
MaxCodes == 2

\* largest top_k a caller passes
MaxTopK == 2

-----------------------------------------------------------------------------
(* Python values *)

None == <<>>

Some(v) == <<v>>

\* bool(x) of an Optional[str]: None and "" are falsy
Truthy(o) == o # None /\ o[1] # <<>>

\* dict.get(key): the value wrapped, or None when the key is absent
Get(d, key) == IF key \in DOMAIN d THEN Some(d[key]) ELSE None

\* dict.get(key, default)
GetOr(d, key, default) == IF key \in DOMAIN d THEN d[key] ELSE default

UpperLetters ==
  <<"A", "B", "C", "D", "E", "F", "G", "H", "I", "J", "K", "L", "M",
    "N", "O", "P", "Q", "R", "S", "T", "U", "V", "W", "X", "Y", "Z">>

LowerLetters ==
  <<"a", "b", "c", "d", "e", "f", "g", "h", "i", "j", "k", "l", "m",
    "n", "o", "p", "q", "r", "s", "t", "u", "v", "w", "x", "y", "z">>

\* str.lower() of one character: A-Z map to a-z; every other character of
\* the model (a-z, digits, blank, sharp s) is its own lower case
LowerChar(c) ==
  IF \E i \in 1..26 : UpperLetters[i] = c
  THEN <<LowerLetters[CHOOSE i \in 1..26 : UpperLetters[i] = c]>>
  ELSE <<c>>

\* str.upper() of one character: a-z map to A-Z, sharp s maps to "SS"
UpperChar(c) ==
  IF c = "sz" THEN <<"S", "S">>
  ELSE IF \E i \in 1..26 : LowerLetters[i] = c
  THEN <<UpperLetters[CHOOSE i \in 1..26 : LowerLetters[i] = c]>>
  ELSE <<c>>

\* str.lower(): character by character, the string being halved so that a
\* product name of a hundred characters nests seven deep
RECURSIVE Lower(_)
Lower(s) ==
  IF s = <<>> THEN <<>>
  ELSE IF Len(s) = 1 THEN LowerChar(s[1])
  ELSE LET half == Len(s) \div 2
       IN  Lower(SubSeq(s, 1, half)) \o Lower(SubSeq(s, half + 1, Len(s)))

RECURSIVE Upper(_)
Upper(s) == IF s = <<>> THEN <<>> ELSE UpperChar(Head(s)) \o Upper(Tail(s))

IsSpace(c) == c \in {" ", "\t", "\n"}

\* str.split() without a separator: runs of whitespace separate the words
\* and no empty word is produced.  cur is the word being read.
RECURSIVE SplitFrom(_, _)
SplitFrom(s, cur) ==
  IF s = <<>> THEN (IF cur = <<>> THEN <<>> ELSE <<cur>>)
  ELSE IF IsSpace(Head(s))
       THEN (IF cur = <<>> THEN <<>> ELSE <<cur>>) \o SplitFrom(Tail(s), <<>>)
       ELSE SplitFrom(Tail(s), Append(cur, Head(s)))

\* str.split(" "): every blank separates, empty words are kept
RECURSIVE SplitOnBlank(_, _)
SplitOnBlank(s, cur) ==
  IF s = <<>> THEN <<cur>>
  ELSE IF Head(s) = " "
       THEN <<cur>> \o SplitOnBlank(Tail(s), <<>>)
       ELSE SplitOnBlank(Tail(s), Append(cur, Head(s)))

SplitKeepingEmpty(s) == SplitOnBlank(s, <<>>)

Split(s) == SplitFrom(s, <<>>)

\* sub in s
Contains(sub, s) ==
  \E i \in 0..(Len(s) - Len(sub)) : SubSeq(s, i + 1, i + Len(sub)) = sub

\* " ".join(words)
RECURSIVE Join(_)
Join(words) ==
  IF words = <<>> THEN <<>>
  ELSE IF Len(words) = 1 THEN words[1]
  ELSE words[1] \o <<" ">> \o Join(Tail(words))

\* list[:k]
SliceTo(list, k) ==
  IF k >= 0
  THEN SubSeq(list, 1, IF k < Len(list) THEN k ELSE Len(list))
  ELSE SubSeq(list, 1, IF Len(list) + k > 0 THEN Len(list) + k ELSE 0)

-----------------------------------------------------------------------------
(* CodeDatabase.load_codes *)

\* a variant that starts the collection of a missing data file with one
\* blank record
load_codes_with_blank(exists, document) ==
  IF exists THEN document ELSE <<[title |-> <<>>]>>

\* load_codes(): self.codes after construction. exists is
\* os.path.exists(self.data_path), document the list json.load reads from
\* the file; a missing file gives the empty list (and two printed warnings)
load_codes(exists, document) ==
  IF exists THEN document ELSE <<>>

-----------------------------------------------------------------------------
(* CodeDatabase.search *)

\* the jurisdiction and code_type tests of the loop: a record is visited
\* further unless one of the two "continue" branches is taken
Passes(code, jurisdiction, code_type) ==
  /\ ~(Get(code, "jurisdiction") # jurisdiction)
  /\ ~(Truthy(code_type) /\ Get(code, "category") # code_type)

\* f"{title} {summary} {' '.join(common_questions)}".lower()
SearchableText(code) ==
  Lower(GetOr(code, "title", <<>>) \o <<" ">>
        \o GetOr(code, "summary", <<>>) \o <<" ">>
        \o Join(GetOr(code, "common_questions", <<>>)))

\* for word in words: if word in text: score += 1
RECURSIVE CountMatching(_, _)
CountMatching(words, text) ==
  IF words = <<>> THEN 0
  ELSE (IF Contains(Head(words), text) THEN 1 ELSE 0)
       + CountMatching(Tail(words), text)

\* a score that counts each distinct word once
ScoreDistinct(code, query_lower) ==
  LET words == Split(query_lower)
      text  == SearchableText(code)
  IN  Cardinality({w \in {words[i] : i \in 1..Len(words)} : Contains(w, text)})

Score(code, query_lower) ==
  CountMatching(Split(query_lower), SearchableText(code))

\* code['relevance_score'] = score; results.append(code): the stored dict
\* itself is annotated and returned
AnnotateInPlace(code, score) ==
  LET annotated == [relevance_score |-> score] @@ code
  IN  [stored |-> annotated, result |-> annotated]

\* results.append({**code, 'relevance_score': score}): a new dict carries
\* the score, the stored one is left as it is
Annotate(code, score) ==
  [stored |-> code, result |-> [relevance_score |-> score] @@ code]

\* the for loop from the record at index i on: the collection as the loop
\* leaves it and the results appended
RECURSIVE SearchLoop(_, _, _, _, _)
SearchLoop(cs, i, query_lower, jurisdiction, code_type) ==
  IF i > Len(cs) THEN [codes |-> cs, results |-> <<>>]
  ELSE IF ~Passes(cs[i], jurisdiction, code_type)
       THEN SearchLoop(cs, i + 1, query_lower, jurisdiction, code_type)
       ELSE LET score == Score(cs[i], query_lower)
            IN  IF score > 0
                THEN LET a    == Annotate(cs[i], score)
                         rest == SearchLoop([cs EXCEPT ![i] = a.stored], i + 1,
                                            query_lower, jurisdiction, code_type)
                     IN  [codes |-> rest.codes,
                          results |-> <<a.result>> \o rest.results]
                ELSE SearchLoop(cs, i + 1, query_lower, jurisdiction, code_type)

\* sorted ascending and then reversed: equal scores swap places
RECURSIVE SortAscendingReversed(_)
SortAscendingReversed(results) ==
  IF results = <<>> THEN <<>>
  ELSE LET x      == results[Len(results)]
           sorted == SortAscendingReversed(SubSeq(results, 1, Len(results) - 1))
           p      == Cardinality({j \in 1..Len(sorted) :
                        sorted[j].relevance_score > x.relevance_score})
       IN  SubSeq(sorted, 1, p) \o <<x>> \o SubSeq(sorted, p + 1, Len(sorted))

\* results.sort(key=lambda x: x['relevance_score'], reverse=True): list.sort
\* is stable, also with reverse=True.  The last element is placed behind
\* every element of the sorted rest whose score is not smaller.
RECURSIVE SortByRelevance(_)
SortByRelevance(results) ==
  IF results = <<>> THEN <<>>
  ELSE LET x      == results[Len(results)]
           sorted == SortByRelevance(SubSeq(results, 1, Len(results) - 1))
           p      == Cardinality({j \in 1..Len(sorted) :
                        sorted[j].relevance_score >= x.relevance_score})
       IN  SubSeq(sorted, 1, p) \o <<x>> \o SubSeq(sorted, p + 1, Len(sorted))

\* results[:top_k + 1]
TopKPlusOne(results, top_k) == SliceTo(results, top_k + 1)

\* results[:top_k]
TopK(results, top_k) == SliceTo(results, top_k)

\* search(query, jurisdiction, code_type, top_k): the collection after the
\* call and the list returned
search(cs, query, jurisdiction, code_type, top_k) ==
  LET run == SearchLoop(cs, 1, Lower(query), jurisdiction, code_type)
  IN  [codes |-> run.codes,
       value |-> TopK(SortByRelevance(run.results), top_k)]

-----------------------------------------------------------------------------
(* CodeDatabase.get_section *)

\* the comparison of the scan made without regard to case
SectionMatchesAnyCase(code, section_reference, jurisdiction) ==
  /\ Get(code, "code_ref") # None /\ section_reference # None
  /\ Lower(Get(code, "code_ref")[1]) = Lower(section_reference[1])
  /\ Get(code, "jurisdiction") = jurisdiction

SectionMatches(code, section_reference, jurisdiction) ==
  /\ Get(code, "code_ref") = section_reference
  /\ Get(code, "jurisdiction") = jurisdiction

\* the scan from index i on: the first matching stored record, or None
RECURSIVE SectionFrom(_, _, _, _)
SectionFrom(cs, i, section_reference, jurisdiction) ==
  IF i > Len(cs) THEN None
  ELSE IF SectionMatches(cs[i], section_reference, jurisdiction)
       THEN Some(cs[i])
       ELSE SectionFrom(cs, i + 1, section_reference, jurisdiction)

get_section(cs, section_reference, jurisdiction) ==
  SectionFrom(cs, 1, section_reference, jurisdiction)

-----------------------------------------------------------------------------
(* CodeDatabase.get_categories *)

General == <<"g", "e", "n", "e", "r", "a", "l">>

\* how many sample questions a category keeps
SampleSize == 3

\* a loop body that creates the entry of a new category from the record's
\* first questions and then adds the record's questions as for any record
CategoryStepSeeded(categories, code) ==
  LET category  == GetOr(code, "category", General)
      questions == GetOr(code, "common_questions", <<>>)
      entry     == IF category \in DOMAIN categories
                   THEN categories[category]
                   ELSE [count |-> 0,
                         sample_questions |-> SliceTo(questions, SampleSize)]
      counted   == [entry EXCEPT !.count = @ + 1]
      sampled   == IF questions # <<>>
                      /\ Len(counted.sample_questions) < SampleSize
                   THEN [counted EXCEPT !.sample_questions =
                           @ \o SliceTo(questions, SampleSize - Len(@))]
                   ELSE counted
  IN  [c \in DOMAIN categories \cup {category} |->
         IF c = category THEN sampled ELSE categories[c]]

\* a loop body that adds the record's first three questions whenever the
\* sample is not yet full
CategoryStepOverfull(categories, code) ==
  LET category  == GetOr(code, "category", General)
      questions == GetOr(code, "common_questions", <<>>)
      entry     == IF category \in DOMAIN categories
                   THEN categories[category]
                   ELSE [count |-> 0, sample_questions |-> <<>>]
      counted   == [entry EXCEPT !.count = @ + 1]
      sampled   == IF questions # <<>>
                      /\ Len(counted.sample_questions) < SampleSize
                   THEN [counted EXCEPT !.sample_questions =
                           @ \o SliceTo(questions, SampleSize)]
                   ELSE counted
  IN  [c \in DOMAIN categories \cup {category} |->
         IF c = category THEN sampled ELSE categories[c]]

\* the body of the loop for one record: the dict categories after it
CategoryStep(categories, code) ==
  LET category  == GetOr(code, "category", General)
      entry     == IF category \in DOMAIN categories
                   THEN categories[category]
                   ELSE [count |-> 0, sample_questions |-> <<>>]
      counted   == [entry EXCEPT !.count = @ + 1]
      questions == GetOr(code, "common_questions", <<>>)
      sampled   == IF questions # <<>>
                      /\ Len(counted.sample_questions) < SampleSize
                   THEN [counted EXCEPT !.sample_questions =
                           @ \o SliceTo(questions, SampleSize - Len(@))]
                   ELSE counted
  IN  [c \in DOMAIN categories \cup {category} |->
         IF c = category THEN sampled ELSE categories[c]]

\* the loop over the first n records, starting from the empty dict
RECURSIVE CategoriesUpTo(_, _)
CategoriesUpTo(cs, n) ==
  IF n = 0 THEN <<>>
  ELSE CategoryStep(CategoriesUpTo(cs, n - 1), cs[n])

get_categories(cs) == CategoriesUpTo(cs, Len(cs))

-----------------------------------------------------------------------------
(* The records and the arguments the model draws from *)

\* jurisdiction and category names, shortened
National   == <<"U", "S">>
California == <<"C", "A">>
Electrical == <<"e", "l">>
Plumbing   == <<"p", "l">>

Gfci == <<"g", "f", "c", "i">>
Gap  == <<"g", "a", "p">>
Tub  == <<"t", "u", "b">>

\* CodeA and CodeB: one jurisdiction, one category, the same code_ref and a
\* shared common question; CodeB has more questions than a sample holds
CodeA ==
  [code_ref |-> <<"R", "1">>, jurisdiction |-> National, category |-> Electrical,
   title |-> <<"G", "f", "c", "i">>, summary |-> <<"P", "a", "s", "s">>,
   common_questions |-> <<Gap, Tub>>]

CodeB ==
  [code_ref |-> <<"R", "1">>, jurisdiction |-> National, category |-> Electrical,
   title |-> <<"G", "A", "P">>, summary |-> Gfci,
   common_questions |-> <<Gap, <<"M", "a", "sz">>, Gfci, Tub>>]

\* a record without category and without common_questions, whose code_ref
\* differs from CodeA's in case only
CodeC ==
  [code_ref |-> <<"r", "1">>, jurisdiction |-> National,
   title |-> <<"T", "u", "b">>, summary |-> <<"t", "a", "p">>]

\* a record without jurisdiction and without code_ref, of another category
CodeD ==
  [category |-> Plumbing,
   title |-> Tub, summary |-> <<"t", "a", "p", " ", "g", "f">>,
   common_questions |-> <<Gfci>>]

CodePool == {CodeA, CodeB, CodeC, CodeD}

\* what codes.json may hold: every list of at most MaxCodes different pool
\* records
Collections ==
  UNION {{cs \in [1..n -> CodePool] :
            \A i, j \in 1..n : i # j => cs[i] # cs[j]} : n \in 0..MaxCodes}

Queries ==
  { <<>>,
    <<" ">>,
    <<"G", "F", "C", "I", " ", "g", "a", "p">>,
    <<"g", "a", "p", " ", " ", "g", "a", "p">>,
    <<"sz">>,
    <<"i", "p">>,
    <<"t", "u", "b", " ", "t", "a", "p">> }

Jurisdictions == {None, Some(National), Some(California)}

CodeTypes == {None, Some(<<>>), Some(Electrical)}

TopKs == 0..MaxTopK

SectionRefs == {Some(<<"R", "1">>), Some(<<"r", "1">>)}

-----------------------------------------------------------------------------
(* The state machine: a loaded CodeDatabase and the calls its server makes *)

\* after CodeDatabase(): the data file may be missing; self.codes holds what
\* load_codes made of it and no call is in progress
Init ==
  /\ \E exists \in BOOLEAN, document \in Collections :
       /\ data_file_found = exists
       /\ codes = load_codes(exists, document)
  /\ mock_products = <<>>
  /\ NoDatabase
  /\ NoChat
  /\ op = "idle"
  /\ args = <<>>
  /\ ret = <<>>
  /\ memo = None

\* one call of search; memo notes that a search which returned records
\* followed the first get_section call
Search ==
  /\ op = "idle"
  /\ \E query \in Queries, jurisdiction \in Jurisdictions,
        code_type \in CodeTypes, top_k \in TopKs :
       LET call == search(codes, query, jurisdiction, code_type, top_k)
       IN  /\ codes' = call.codes
           /\ op' = "search"
           /\ args' = [query |-> query, jurisdiction |-> jurisdiction,
                       code_type |-> code_type, top_k |-> top_k]
           /\ ret' = call.value
           /\ memo' = IF memo # None /\ call.value # <<>>
                      THEN Some([memo[1] EXCEPT !.searched = TRUE])
                      ELSE memo
  /\ UNCHANGED <<data_file_found, mock_products, database_vars, chat_vars>>

\* one call of get_section; memo keeps the arguments and the result of the
\* first such call
GetSection ==
  /\ op = "idle"
  /\ \E section_reference \in SectionRefs, jurisdiction \in Jurisdictions :
       LET value == get_section(codes, section_reference, jurisdiction)
           a     == [section_reference |-> section_reference,
                     jurisdiction |-> jurisdiction]
       IN  /\ op' = "get_section"
           /\ args' = a
           /\ ret' = value
           /\ memo' = IF memo = None
                      THEN Some([args |-> a, ret |-> value, searched |-> FALSE])
                      ELSE memo
           /\ UNCHANGED <<codes, data_file_found, mock_products,
                          database_vars, chat_vars>>

\* one call of get_categories
GetCategories ==
  /\ op = "idle"
  /\ op' = "get_categories"
  /\ args' = <<>>
  /\ ret' = get_categories(codes)
  /\ UNCHANGED <<codes, memo, data_file_found, mock_products,
                 database_vars, chat_vars>>

\* the tool handler has rendered the returned value and returns; the server
\* waits for the next request
Respond ==
  /\ op # "idle"
  /\ op' = "idle"
  /\ args' = <<>>
  /\ ret' = <<>>
  /\ UNCHANGED <<codes, memo, data_file_found, mock_products,
                 database_vars, chat_vars>>

Next == Search \/ GetSection \/ GetCategories \/ Respond

Spec == Init /\ [][Next]_vars

-----------------------------------------------------------------------------
(* Vocabulary of the properties *)

\* the lower-cased 'title summary common_questions' text of a record
RecordText(code) ==
  Lower(GetOr(code, "title", <<>>) \o <<" ">> \o GetOr(code, "summary", <<>>)
        \o <<" ">> \o Join(GetOr(code, "common_questions", <<>>)))

\* the whitespace-separated tokens of the lower-cased query
QueryTokens(query) == Split(Lower(query))

\* how many tokens of the query, repeated ones counted each time, occur in
\* the record's text
TokenCount(code, query) ==
  LET tokens == QueryTokens(query)
      text   == RecordText(code)
  IN  Cardinality({i \in 1..Len(tokens) : Contains(tokens[i], text)})

\* a returned record without the score attached to it
Unscored(r) == [k \in DOMAIN r \ {"relevance_score"} |-> r[k]]

\* the ways to trace each returned record to a position of its own in the
\* collection
Origins(returned, cs) ==
  {f \in [1..Len(returned) -> 1..Len(cs)] :
     /\ \A i, j \in 1..Len(returned) : i # j => f[i] # f[j]
     /\ \A i \in 1..Len(returned) : Unscored(returned[i]) = cs[f[i]]}

\* the positions of the records that pass the filters of the last search
\* and match at least one token
Ranked ==
  {j \in 1..Len(codes) :
     /\ Passes(codes[j], args.jurisdiction, args.code_type)
     /\ TokenCount(codes[j], args.query) >= 1}

-----------------------------------------------------------------------------
(* C1 *)

\* C1: every record search returns carries a relevance_score equal to the
\* number of query tokens (repetitions counted) found in its text, the score
\* is at least 1, and no record that matches no token is returned.
C1_ScoreIsTokenCount ==
  op = "search" =>
    /\ \A i \in 1..Len(ret) :
         /\ ret[i].relevance_score = TokenCount(Unscored(ret[i]), args.query)
         /\ ret[i].relevance_score >= 1
    /\ \A j \in 1..Len(codes) :
         TokenCount(codes[j], args.query) = 0 =>
           \A i \in 1..Len(ret) : Unscored(ret[i]) # codes[j]

\* a search whose query repeats a token has returned a record scored 2 and
\* left out a filter-passing record that matches no token
C1_Witness ==
  /\ op = "search"
  /\ args.query = <<"g", "a", "p", " ", " ", "g", "a", "p">>
  /\ \E i \in 1..Len(ret) : ret[i].relevance_score = 2
  /\ \E j \in 1..Len(codes) :
       /\ Passes(codes[j], args.jurisdiction, args.code_type)
       /\ TokenCount(codes[j], args.query) = 0

-----------------------------------------------------------------------------
(* C2 *)

\* C2: the list search returns is in descending order of relevance_score,
\* and returned records of equal score keep the order they have in the
\* collection.
C2_SortedStable ==
  op = "search" =>
    /\ \A i \in 1..(Len(ret) - 1) :
         ret[i].relevance_score >= ret[i + 1].relevance_score
    /\ \E f \in Origins(ret, codes) :
         \A i, j \in 1..Len(ret) :
           (i < j /\ ret[i].relevance_score = ret[j].relevance_score)
             => f[i] < f[j]

\* a search has returned two different records of equal score, and another
\* has moved a later record of higher score to the front
C2_Witness ==
  /\ op = "search"
  /\ Len(ret) >= 2
  /\ Unscored(ret[1]) # Unscored(ret[2])
  /\ \/ ret[1].relevance_score = ret[2].relevance_score
     \/ /\ ret[1].relevance_score > ret[2].relevance_score
        /\ \A f \in Origins(ret, codes) : f[1] > f[2]

-----------------------------------------------------------------------------
(* C3 *)

\* C3: for a positive top_k search returns exactly the first min(top_k, m)
\* entries of the ranked list of the m filter-passing records that match a
\* token: never more than top_k, and no record left out outranks a
\* returned one.
C3_TopKPrefix ==
  (op = "search" /\ args.top_k > 0) =>
    LET full == SortByRelevance(
                  SearchLoop(codes, 1, Lower(args.query),
                             args.jurisdiction, args.code_type).results)
        m    == Cardinality(Ranked)
        n    == IF args.top_k < m THEN args.top_k ELSE m
    IN  /\ Len(full) = m
        /\ Len(ret) = n
        /\ Len(ret) <= args.top_k
        /\ ret = SubSeq(full, 1, n)
        /\ \E f \in Origins(ret, codes) :
             \A j \in Ranked \ {f[i] : i \in 1..Len(ret)} :
               \A i \in 1..Len(ret) :
                 TokenCount(codes[j], args.query) <= ret[i].relevance_score

\* a search with top_k = 1 over two matching records has returned one
C3_Witness ==
  /\ op = "search"
  /\ args.top_k = 1
  /\ Cardinality(Ranked) >= 2
  /\ Len(ret) = 1

-----------------------------------------------------------------------------
(* C4 *)

\* C4: search with the empty query returns the empty list whatever the
\* collection and the other arguments are, and so does a query none of
\* whose tokens occurs in any record's text.
C4_EmptyOrUnmatchedQuery ==
  op = "search" =>
    /\ args.query = <<>> => ret = <<>>
    /\ (\A j \in 1..Len(codes) : TokenCount(codes[j], args.query) = 0)
         => ret = <<>>

\* a search with the empty query over a collection with a record that
\* passes the filters has returned the empty list
C4_Witness ==
  /\ op = "search"
  /\ args.query = <<>>
  /\ \E j \in 1..Len(codes) :
       Passes(codes[j], args.jurisdiction, args.code_type)
  /\ ret = <<>>

-----------------------------------------------------------------------------
(* C5 *)

\* C5: the filters of search are a hard AND: every returned record has a
\* jurisdiction attribute equal to the requested jurisdiction and, when a
\* code_type is supplied, a category attribute equal to it; a record that
\* lacks the attribute is never returned, whatever value the caller
\* supplies, and a jurisdiction no record carries yields the empty list.
C5_HardFilters ==
  op = "search" =>
    /\ \A i \in 1..Len(ret) :
         /\ "jurisdiction" \in DOMAIN ret[i]
         /\ Some(ret[i].jurisdiction) = args.jurisdiction
         /\ args.code_type # None =>
              /\ "category" \in DOMAIN ret[i]
              /\ Some(ret[i].category) = args.code_type
    /\ (\A j \in 1..Len(codes) :
          "jurisdiction" \in DOMAIN codes[j]
            => Some(codes[j].jurisdiction) # args.jurisdiction)
         => ret = <<>>

-----------------------------------------------------------------------------
(* C6 *)

\* C6: search is case-insensitive in the query: with the collection and the
\* filters of any search, the upper-cased and the lower-cased query return
\* the same records with the same scores in the same order.
C6_CaseInsensitive ==
  op = "search" =>
    search(codes, Upper(args.query), args.jurisdiction,
           args.code_type, args.top_k).value
      = search(codes, Lower(args.query), args.jurisdiction,
               args.code_type, args.top_k).value

-----------------------------------------------------------------------------
(* C7 *)

\* the positions of the last get_section call's matches
SectionHits ==
  {i \in 1..Len(codes) :
     /\ Get(codes[i], "code_ref") = args.section_reference
     /\ Get(codes[i], "jurisdiction") = args.jurisdiction}

\* C7: get_section returns the first record in collection order whose
\* code_ref equals the reference exactly, case included, and whose
\* jurisdiction equals the given one, and None when there is none.
C7_FirstExactMatch ==
  op = "get_section" =>
    IF SectionHits = {}
    THEN ret = None
    ELSE ret = Some(codes[CHOOSE i \in SectionHits :
                            \A j \in SectionHits : i <= j])

\* get_section has skipped a record whose code_ref differs from the
\* reference in case only and returned the record behind it
C7_Witness ==
  /\ op = "get_section"
  /\ Len(codes) >= 2
  /\ "code_ref" \in DOMAIN codes[1]
  /\ Some(codes[1].code_ref) # args.section_reference
  /\ Some(Lower(codes[1].code_ref)) = Some(Lower(args.section_reference[1]))
  /\ ret = Some(codes[2])

-----------------------------------------------------------------------------
(* C8 *)

\* C8: no query operation changes the loaded collection (search attaches
\* the score to a copy), and so a get_section call repeated with the
\* arguments of the first one returns what the first one returned, whatever
\* was called in between.
C8_ReadOnly ==
  [][/\ codes' = codes
     /\ (op' = "get_section" /\ memo # None /\ memo[1].args = args')
          => ret' = memo[1].ret]_vars

\* get_section has been repeated with the arguments of the first call and
\* found the record again, after a search that returned records
C8_Witness ==
  /\ op = "get_section"
  /\ memo # None
  /\ memo[1].args = args
  /\ memo[1].searched
  /\ ret # None

-----------------------------------------------------------------------------
(* C9 and C10 *)

\* the category a record is grouped under
CategoryOf(code) == IF "category" \in DOMAIN code THEN code.category ELSE General

\* the common questions of the records of category c among the first n
\* records, in collection order
RECURSIVE QuestionsOf(_, _, _)
QuestionsOf(cs, c, n) ==
  IF n = 0 THEN <<>>
  ELSE QuestionsOf(cs, c, n - 1)
       \o (IF CategoryOf(cs[n]) = c /\ "common_questions" \in DOMAIN cs[n]
           THEN cs[n].common_questions ELSE <<>>)

\* the first (up to) three entries of a list
FirstThree(list) == SubSeq(list, 1, IF Len(list) < 3 THEN Len(list) ELSE 3)

RECURSIVE SumOfCounts(_, _)
SumOfCounts(cats, keys) ==
  IF keys = {} THEN 0
  ELSE LET k == CHOOSE x \in keys : TRUE
       IN  cats[k].count + SumOfCounts(cats, keys \ {k})

NoRepeat(list) ==
  \A i, j \in 1..Len(list) : i # j => list[i] # list[j]

\* C9: get_categories groups every record under its category ('general'
\* when absent): each count is the number of records of the category, the
\* counts sum to the size of the collection, and sample_questions holds at
\* most 3 entries, the first three common questions met in the category's
\* records in collection order.
C9_CategoriesCountAndSample ==
  op = "get_categories" =>
    /\ DOMAIN ret = {CategoryOf(codes[i]) : i \in 1..Len(codes)}
    /\ \A c \in DOMAIN ret :
         /\ ret[c].count
              = Cardinality({i \in 1..Len(codes) : CategoryOf(codes[i]) = c})
         /\ Len(ret[c].sample_questions) <= 3
         /\ ret[c].sample_questions
              = FirstThree(QuestionsOf(codes, c, Len(codes)))
    /\ SumOfCounts(ret, DOMAIN ret) = Len(codes)

\* get_categories has cut the questions of a category of two records down
\* to three
C9_Witness ==
  /\ op = "get_categories"
  /\ \E c \in DOMAIN ret :
       /\ ret[c].count >= 2
       /\ Len(QuestionsOf(codes, c, Len(codes))) > 3
       /\ Len(ret[c].sample_questions) = 3

\* C10: the sample get_categories returns for a category consists of
\* distinct snippets, even when two records of the category share a common
\* question.
C10_DistinctSample ==
  op = "get_categories" =>
    \A c \in DOMAIN ret : NoRepeat(ret[c].sample_questions)

\* C10 as amended: nothing is de-duplicated; the snippets of a sample are
\* distinct exactly when the first three common questions met in the
\* category's records are.
C10_DistinctIffDataDistinct ==
  op = "get_categories" =>
    \A c \in DOMAIN ret :
      NoRepeat(ret[c].sample_questions)
        <=> NoRepeat(FirstThree(QuestionsOf(codes, c, Len(codes))))

\* get_categories has returned three distinct snippets for a category whose
\* two records share a common question
C10_Witness ==
  /\ op = "get_categories"
  /\ \E c \in DOMAIN ret :
       /\ ret[c].count >= 2
       /\ ~NoRepeat(QuestionsOf(codes, c, Len(codes)))
       /\ Len(ret[c].sample_questions) = 3
       /\ NoRepeat(ret[c].sample_questions)

-----------------------------------------------------------------------------
(* C11: when the data file is missing the CodeDatabase has an empty        *)
(* collection, and every search returns the empty list, every get_section  *)
(* returns None and get_categories returns the empty mapping.              *)

C11_MissingFileEmpty ==
  ~data_file_found =>
     /\ codes = <<>>
     /\ op = "search" => ret = <<>>
     /\ op = "get_section" => ret = None
     /\ op = "get_categories" => DOMAIN ret = {}

\* a database whose file was missing has answered a section lookup and then
\* a search with a non-blank query
C11_Witness ==
  /\ ~data_file_found
  /\ op = "search"
  /\ Split(args.query) # <<>>
  /\ args.top_k > 0
  /\ memo # None

-----------------------------------------------------------------------------
(***************************************************************************)
(* Part 2: material_specs_server, the product listings.                    *)
(* suppliers/home_depot.py, class HomeDepotSupplier: the list              *)
(* self.mock_products and search_products; product_database.py, class      *)
(* ProductDatabase: search_all_suppliers over its one supplier.            *)
(*                                                                         *)
(* A Product is a record of the dataclass fields the searches read or      *)
(* write.  price is in cents and rating in tenths: both are only compared, *)
(* and the decimal literals of the source compare as their cents and       *)
(* tenths do.  distance_miles is in tenths of a mile.  specifications      *)
(* holds what .get("voltage") and .get("amperage") return of the dict:     *)
(* None for a key it lacks.                                                *)
(***************************************************************************)

\* bool(x) of an Optional number: None and 0 are falsy
TruthyNumber(o) == o # None /\ o[1] # 0

\* str.strip()
RECURSIVE Strip(_)
Strip(s) ==
  IF s = <<>> THEN <<>>
  ELSE IF IsSpace(s[1]) THEN Strip(Tail(s))
  ELSE IF IsSpace(s[Len(s)]) THEN Strip(SubSeq(s, 1, Len(s) - 1))
  ELSE s

-----------------------------------------------------------------------------
(* HomeDepotSupplier._initialize_mock_products *)

\* HD-12345 (line 26): $87.43, rated 4.7
Southwire ==
  [id |-> "HD-12345",
   name |->
     <<"S", "o", "u", "t", "h", "w", "i", "r", "e", " ", "2", "5", "0",
       " ", "f", "t", ".", " ", "1", "2", "/", "2", " ", "S", "o", "l",
       "i", "d", " ", "R", "o", "m", "e", "x", " ", "S", "I", "M", "p",
       "u", "l", "l", " ", "C", "U", " ", "N", "M", "-", "B", " ", "W",
       "/", "G", " ", "W", "i", "r", "e">>,
   category |-> <<"e", "l", "e", "c", "t", "r", "i", "c", "a", "l">>,
   subcategory |->
     <<"w", "i", "r", "e">>,
   price |-> 8743, rating |-> Some(47),
   store_location |-> None, distance_miles |-> None,
   specifications |-> [voltage |-> None, amperage |-> None]]

\* HD-12346 (line 52): $79.98, rated 4.5
Cerrowire ==
  [id |-> "HD-12346",
   name |->
     <<"C", "e", "r", "r", "o", "w", "i", "r", "e", " ", "2", "5", "0",
       " ", "f", "t", ".", " ", "1", "2", "/", "2", " ", "N", "M", "-",
       "B", " ", "W", "i", "r", "e">>,
   category |-> <<"e", "l", "e", "c", "t", "r", "i", "c", "a", "l">>,
   subcategory |->
     <<"w", "i", "r", "e">>,
   price |-> 7998, rating |-> Some(45),
   store_location |-> None, distance_miles |-> None,
   specifications |-> [voltage |-> None, amperage |-> None]]

\* HD-20001 (line 78): $16.97, rated 4.8
Leviton ==
  [id |-> "HD-20001",
   name |->
     <<"L", "e", "v", "i", "t", "o", "n", " ", "1", "5", " ", "A", "m",
       "p", " ", "1", "2", "5", "-", "V", "o", "l", "t", " ", "D", "u",
       "p", "l", "e", "x", " ", "S", "e", "l", "f", "-", "T", "e", "s",
       "t", " ", "T", "a", "m", "p", "e", "r", "-", "R", "e", "s", "i",
       "s", "t", "a", "n", "t", " ", "G", "F", "C", "I", " ", "O", "u",
       "t", "l", "e", "t", ",", " ", "W", "h", "i", "t", "e">>,
   category |-> <<"e", "l", "e", "c", "t", "r", "i", "c", "a", "l">>,
   subcategory |->
     <<"o", "u", "t", "l", "e", "t", "s">>,
   price |-> 1697, rating |-> Some(48),
   store_location |-> None, distance_miles |-> None,
   specifications |-> [voltage |-> Some("125V"), amperage |-> Some("15A")]]

\* HD-20002 (line 100): $12.47, rated 4.6
Eaton ==
  [id |-> "HD-20002",
   name |->
     <<"E", "a", "t", "o", "n", " ", "1", "5", " ", "A", "m", "p", " ",
       "1", "2", "5", "-", "V", "o", "l", "t", " ", "T", "a", "m", "p",
       "e", "r", " ", "R", "e", "s", "i", "s", "t", "a", "n", "t", " ",
       "G", "F", "C", "I", " ", "D", "u", "p", "l", "e", "x", " ", "R",
       "e", "c", "e", "p", "t", "a", "c", "l", "e", ",", " ", "W", "h",
       "i", "t", "e">>,
   category |-> <<"e", "l", "e", "c", "t", "r", "i", "c", "a", "l">>,
   subcategory |->
     <<"o", "u", "t", "l", "e", "t", "s">>,
   price |-> 1247, rating |-> Some(46),
   store_location |-> None, distance_miles |-> None,
   specifications |-> [voltage |-> Some("125V"), amperage |-> Some("15A")]]

\* HD-30001 (line 124): $42.98, rated 4.7
SquareD ==
  [id |-> "HD-30001",
   name |->
     <<"S", "q", "u", "a", "r", "e", " ", "D", " ", "H", "o", "m", "e",
       "l", "i", "n", "e", " ", "2", "0", " ", "A", "m", "p", " ", "S",
       "i", "n", "g", "l", "e", "-", "P", "o", "l", "e", " ", "G", "F",
       "C", "I", " ", "C", "i", "r", "c", "u", "i", "t", " ", "B", "r",
       "e", "a", "k", "e", "r">>,
   category |-> <<"e", "l", "e", "c", "t", "r", "i", "c", "a", "l">>,
   subcategory |->
     <<"c", "i", "r", "c", "u", "i", "t", "_", "b", "r", "e", "a", "k",
       "e", "r", "s">>,
   price |-> 4298, rating |-> Some(47),
   store_location |-> None, distance_miles |-> None,
   specifications |-> [voltage |-> None, amperage |-> Some("20A")]]

\* HD-40001 (line 147): $8.97, rated 4.6
SharkBite ==
  [id |-> "HD-40001",
   name |->
     <<"S", "h", "a", "r", "k", "B", "i", "t", "e", " ", "1", "/", "2",
       " ", "i", "n", ".", " ", "B", "r", "a", "s", "s", " ", "P", "u",
       "s", "h", "-", "t", "o", "-", "C", "o", "n", "n", "e", "c", "t",
       " ", "C", "o", "u", "p", "l", "i", "n", "g">>,
   category |-> <<"p", "l", "u", "m", "b", "i", "n", "g">>,
   subcategory |->
     <<"f", "i", "t", "t", "i", "n", "g", "s">>,
   price |-> 897, rating |-> Some(46),
   store_location |-> None, distance_miles |-> None,
   specifications |-> [voltage |-> None, amperage |-> None]]

\* HD-40002 (line 169): $67.98, rated 4.8
Apollo ==
  [id |-> "HD-40002",
   name |->
     <<"A", "p", "o", "l", "l", "o", " ", "1", "0", "0", " ", "f", "t",
       ".", " ", "C", "o", "i", "l", " ", "R", "e", "d", " ", "1", "/",
       "2", " ", "i", "n", ".", " ", "P", "E", "X", "-", "A", " ", "E",
       "x", "p", "a", "n", "s", "i", "o", "n", " ", "P", "i", "p", "e">>,
   category |-> <<"p", "l", "u", "m", "b", "i", "n", "g">>,
   subcategory |->
     <<"p", "i", "p", "e">>,
   price |-> 6798, rating |-> Some(48),
   store_location |-> None, distance_miles |-> None,
   specifications |-> [voltage |-> None, amperage |-> None]]

\* HD-50001 (line 194): $8.47, rated 4.3
Lumber2x4 ==
  [id |-> "HD-50001",
   name |->
     <<"2", " ", "i", "n", ".", " ", "x", " ", "4", " ", "i", "n", ".",
       " ", "x", " ", "8", " ", "f", "t", ".", " ", "#", "2", " ", "P",
       "r", "i", "m", "e", " ", "P", "r", "e", "s", "s", "u", "r", "e",
       "-", "T", "r", "e", "a", "t", "e", "d", " ", "L", "u", "m", "b",
       "e", "r">>,
   category |-> <<"l", "u", "m", "b", "e", "r">>,
   subcategory |->
     <<"d", "i", "m", "e", "n", "s", "i", "o", "n", "a", "l", "_", "l",
       "u", "m", "b", "e", "r">>,
   price |-> 847, rating |-> Some(43),
   store_location |-> None, distance_miles |-> None,
   specifications |-> [voltage |-> None, amperage |-> None]]

\* HD-50002 (line 216): $22.98, rated 4.4
Lumber2x8 ==
  [id |-> "HD-50002",
   name |->
     <<"2", " ", "i", "n", ".", " ", "x", " ", "8", " ", "i", "n", ".",
       " ", "x", " ", "1", "2", " ", "f", "t", ".", " ", "#", "2", " ",
       "P", "r", "e", "s", "s", "u", "r", "e", "-", "T", "r", "e", "a",
       "t", "e", "d", " ", "L", "u", "m", "b", "e", "r">>,
   category |-> <<"l", "u", "m", "b", "e", "r">>,
   subcategory |->
     <<"d", "i", "m", "e", "n", "s", "i", "o", "n", "a", "l", "_", "l",
       "u", "m", "b", "e", "r">>,
   price |-> 2298, rating |-> Some(44),
   store_location |-> None, distance_miles |-> None,
   specifications |-> [voltage |-> None, amperage |-> None]]

\* HD-60001 (line 240): $31.98, rated 4.5
MarbleTile ==
  [id |-> "HD-60001",
   name |->
     <<"M", "S", "I", " ", "C", "a", "r", "r", "a", "r", "a", " ", "W",
       "h", "i", "t", "e", " ", "1", "2", " ", "i", "n", ".", " ", "x",
       " ", "1", "2", " ", "i", "n", ".", " ", "P", "o", "l", "i", "s",
       "h", "e", "d", " ", "M", "a", "r", "b", "l", "e", " ", "F", "l",
       "o", "o", "r", " ", "a", "n", "d", " ", "W", "a", "l", "l", " ",
       "T", "i", "l", "e", " ", "(", "1", "0", " ", "s", "q", ".", " ",
       "f", "t", ".", "/", "c", "a", "s", "e", ")">>,
   category |-> <<"f", "l", "o", "o", "r", "i", "n", "g">>,
   subcategory |->
     <<"t", "i", "l", "e">>,
   price |-> 3198, rating |-> Some(45),
   store_location |-> None, distance_miles |-> None,
   specifications |-> [voltage |-> None, amperage |-> None]]


\* the list _initialize_mock_products returns
InitialProducts ==
  <<Southwire, Cerrowire, Leviton, Eaton, SquareD, SharkBite, Apollo,
    Lumber2x4, Lumber2x8, MarbleTile>>

-----------------------------------------------------------------------------
(* HomeDepotSupplier.search_products *)

\* the category filter: "if category and product.category != category:
\* continue" lets the product pass otherwise
PassesCategory(product, category) ==
  ~(Truthy(category) /\ product.category # category[1])

\* the price filter: "if max_price and product.price > max_price: continue"
PassesPrice(product, max_price) ==
  ~(TruthyNumber(max_price) /\ product.price > max_price[1])

\* f"{product.name} {product.category} {product.subcategory}".lower()
ProductSearchable(product) ==
  Lower(product.name \o <<" ">> \o product.category \o <<" ">>
        \o product.subcategory)

\* any(word in searchable for word in query_lower.split())
AnyWordIn(words, searchable) ==
  \E i \in 1..Len(words) : Contains(words[i], searchable)

\* the two assignments made to a matching product when a zip_code is given
WithLocation(product) ==
  [product EXCEPT !.store_location = Some("Brighton, MA"),
                  !.distance_miles = Some(23)]

\* the loop over self.mock_products from index i on: the list after it (the
\* Product objects are shared with the results, so an assignment shows in
\* both) and the matching products in collection order
RECURSIVE ProductLoop(_, _, _, _, _, _)
ProductLoop(ps, i, query_lower, category, zip_code, max_price) ==
  IF i > Len(ps) THEN [mock_products |-> ps, results |-> <<>>]
  ELSE IF /\ PassesCategory(ps[i], category)
          /\ PassesPrice(ps[i], max_price)
          /\ AnyWordIn(Split(query_lower), ProductSearchable(ps[i]))
       THEN LET product == IF Truthy(zip_code) THEN WithLocation(ps[i])
                           ELSE ps[i]
                rest    == ProductLoop([ps EXCEPT ![i] = product], i + 1,
                                       query_lower, category, zip_code,
                                       max_price)
            IN  [mock_products |-> rest.mock_products,
                 results |-> <<product>> \o rest.results]
       ELSE ProductLoop(ps, i + 1, query_lower, category, zip_code, max_price)

\* the second component of the sort key: -p.rating if p.rating else 0
RatingKey(p) == IF TruthyNumber(p.rating) THEN 0 - p.rating[1] ELSE 0

\* (p.price, rating key) of a is not greater than that of b
KeyAtMost(a, b) ==
  \/ a.price < b.price
  \/ a.price = b.price /\ RatingKey(a) <= RatingKey(b)

\* a sort that puts the dearest product first
RECURSIVE SortByPriceDescending(_)
SortByPriceDescending(results) ==
  IF results = <<>> THEN <<>>
  ELSE LET x      == results[Len(results)]
           sorted == SortByPriceDescending(SubSeq(results, 1, Len(results) - 1))
           p      == Cardinality({j \in 1..Len(sorted) :
                                    KeyAtMost(x, sorted[j])})
       IN  SubSeq(sorted, 1, p) \o <<x>> \o SubSeq(sorted, p + 1, Len(sorted))

\* results.sort(key=lambda p: (p.price, -p.rating if p.rating else 0)):
\* ascending and stable.  The last element is placed behind every element
\* of the sorted rest whose key is not greater.
RECURSIVE SortByPriceThenRating(_)
SortByPriceThenRating(results) ==
  IF results = <<>> THEN <<>>
  ELSE LET x      == results[Len(results)]
           sorted == SortByPriceThenRating(SubSeq(results, 1, Len(results) - 1))
           p      == Cardinality({j \in 1..Len(sorted) :
                                    KeyAtMost(sorted[j], x)})
       IN  SubSeq(sorted, 1, p) \o <<x>> \o SubSeq(sorted, p + 1, Len(sorted))

\* search_products(query, category, zip_code, max_price, limit): the list
\* self.mock_products after the call and the list returned
search_products(ps, query, category, zip_code, max_price, limit) ==
  LET run == ProductLoop(ps, 1, Lower(query), category, zip_code, max_price)
  IN  [mock_products |-> run.mock_products,
       value |-> SliceTo(SortByPriceThenRating(run.results), limit)]

-----------------------------------------------------------------------------
(* ProductDatabase.search_all_suppliers *)

\* a de-duplication on the names as they are written
RECURSIVE DeduplicateAsWritten(_, _, _)
DeduplicateAsWritten(products, i, seen_names) ==
  IF i > Len(products) THEN <<>>
  ELSE IF products[i].name \notin seen_names
       THEN <<products[i]>>
            \o DeduplicateAsWritten(products, i + 1,
                                    seen_names \cup {products[i].name})
       ELSE DeduplicateAsWritten(products, i + 1, seen_names)

\* _deduplicate_products from index i on, seen_names being the set of
\* name keys met so far
RECURSIVE Deduplicate(_, _, _)
Deduplicate(products, i, seen_names) ==
  IF i > Len(products) THEN <<>>
  ELSE LET name_key == Strip(Lower(products[i].name))
       IN  IF name_key \notin seen_names
           THEN <<products[i]>>
                \o Deduplicate(products, i + 1, seen_names \cup {name_key})
           ELSE Deduplicate(products, i + 1, seen_names)

\* search_all_suppliers(query, category, zip_code, max_price,
\* limit_per_supplier) with self.suppliers = {"home_depot": ...}: the one
\* supplier's list after the call and the list returned
search_all_suppliers(ps, query, category, zip_code, max_price, limit_per_supplier) ==
  LET result == search_products(ps, query, category, zip_code, max_price,
                                limit_per_supplier)
  IN  [mock_products |-> result.mock_products,
       value |-> SortByPriceThenRating(Deduplicate(result.value, 1, {}))]

-----------------------------------------------------------------------------
(* The calls the model makes of the product listings *)

\* largest limit a caller passes
MaxLimit == 2

Zip == <<"0", "2", "1", "3", "4">>

Electric == <<"e", "l", "e", "c", "t", "r", "i", "c", "a", "l">>

ProductQueries ==
  { <<>>,
    <<"w", "i", "r", "e">>,
    <<"G", "F", "C", "I", " ", "o", "u", "t", "l", "e", "t">> }

ProductCategories == {None, Some(Electric)}

ZipCodes == {None, Some(Zip)}

\* price ceilings in cents: none, $0, $15 and $50
MaxPrices == {None, Some(0), Some(1500), Some(5000)}

Limits == 1..MaxLimit

-----------------------------------------------------------------------------
(* The state machine: a ProductDatabase with its HomeDepotSupplier *)

\* after ProductDatabase(): the supplier holds its initial products
InitProducts ==
  /\ mock_products = InitialProducts
  /\ NoDatabase
  /\ NoChat
  /\ op = "idle"
  /\ args = <<>>
  /\ ret = <<>>
  /\ codes = <<>>
  /\ memo = None
  /\ data_file_found = FALSE

\* one call of HomeDepotSupplier.search_products
SearchProducts ==
  /\ op = "idle"
  /\ \E query \in ProductQueries, category \in ProductCategories,
        zip_code \in ZipCodes, max_price \in MaxPrices, limit \in Limits :
       LET call == search_products(mock_products, query, category, zip_code,
                                   max_price, limit)
       IN  /\ mock_products' = call.mock_products
           /\ op' = "search_products"
           /\ args' = [query |-> query, category |-> category,
                       zip_code |-> zip_code, max_price |-> max_price,
                       limit |-> limit]
           /\ ret' = call.value
  /\ UNCHANGED <<codes, memo, data_file_found, database_vars, chat_vars>>

\* one call of ProductDatabase.search_all_suppliers, as the search_materials
\* tool makes it: limit_per_supplier is 5
SearchAllSuppliers ==
  /\ op = "idle"
  /\ \E query \in ProductQueries, category \in ProductCategories,
        zip_code \in ZipCodes, max_price \in MaxPrices :
       LET call == search_all_suppliers(mock_products, query, category,
                                        zip_code, max_price, 5)
       IN  /\ mock_products' = call.mock_products
           /\ op' = "search_all_suppliers"
           /\ args' = [query |-> query, category |-> category,
                       zip_code |-> zip_code, max_price |-> max_price,
                       limit |-> 5]
           /\ ret' = call.value
  /\ UNCHANGED <<codes, memo, data_file_found, database_vars, chat_vars>>

\* the caller has taken the returned list
RespondProducts ==
  /\ op # "idle"
  /\ op' = "idle"
  /\ args' = <<>>
  /\ ret' = <<>>
  /\ UNCHANGED <<mock_products, codes, memo, data_file_found,
                 database_vars, chat_vars>>

NextProducts == SearchProducts \/ SearchAllSuppliers \/ RespondProducts

SpecProducts == InitProducts /\ [][NextProducts]_vars

-----------------------------------------------------------------------------
(* Vocabulary of the product properties *)

ProductCall == op \in {"search_products", "search_all_suppliers"}

\* position in mock_products of the product with the given id
ProductIndex(id) ==
  CHOOSE i \in 1..Len(mock_products) : mock_products[i].id = id

\* the text a product is matched on, lower-cased
ProductText(p) ==
  Lower(p.name \o <<" ">> \o p.category \o <<" ">> \o p.subcategory)

\* number of tokens of the query found in the product's text
ProductTokenCount(p, query) ==
  LET words == QueryTokens(query)
      text  == ProductText(p)
  IN  Cardinality({w \in 1..Len(words) : Contains(words[w], text)})

\* a rating with "unrated" counted as 0
RatingOf(p) == IF p.rating = None THEN 0 ELSE p.rating[1]

\* a comes before b by price ascending, then rating descending, then
\* collection order
CheaperFirst(a, b) ==
  \/ a.price < b.price
  \/ a.price = b.price /\ RatingOf(a) > RatingOf(b)
  \/ /\ a.price = b.price
     /\ RatingOf(a) = RatingOf(b)
     /\ ProductIndex(a.id) < ProductIndex(b.id)

\* positions of the products a search_products call with the arguments in
\* args may return: those the filters let pass and that hold a query token
Candidates ==
  {i \in 1..Len(mock_products) :
     /\ PassesCategory(mock_products[i], args.category)
     /\ PassesPrice(mock_products[i], args.max_price)
     /\ ProductTokenCount(mock_products[i], args.query) > 0}

-----------------------------------------------------------------------------
(* C12: product search never mutates the loaded product collection: after  *)
(* any sequence of search_products / search_all_suppliers calls every      *)
(* product in mock_products has the field values it had at initialization, *)
(* and a product returned by a search without zip_code carries no          *)
(* store_location or distance_miles.                                       *)

C12_ProductsNeverMutated ==
  /\ mock_products = InitialProducts
  /\ NoDatabase
  /\ NoChat
  /\ (ProductCall /\ args.zip_code = None) =>
       \A k \in 1..Len(ret) :
          ret[k].store_location = None /\ ret[k].distance_miles = None

-----------------------------------------------------------------------------
(* C13: the products search_products returns are ordered by descending     *)
(* count of query tokens found in the product's searchable text, ties      *)
(* keeping collection order, and the limit keeps the highest-scoring       *)
(* products.                                                               *)

-----------------------------------------------------------------------------
(* C14: the price ceiling is a hard filter: whenever a max_price is        *)
(* supplied to search_products / search_all_suppliers (any number,         *)
(* including 0), no returned product has a price greater than max_price.   *)

C14_PriceCeiling ==
  (ProductCall /\ args.max_price # None) =>
     \A k \in 1..Len(ret) : ret[k].price <= args.max_price[1]

-----------------------------------------------------------------------------
(***************************************************************************)
(* Part 3: material_specs_server/calculators.py, class MaterialCalculator. *)
(*                                                                         *)
(* Python numbers.  The calculators compute with Python floats (IEEE 754   *)
(* binary64, round to nearest, ties to even); 100 * (1 + 0.15) is          *)
(* 114.99999999999999 and math.ceil sees that.  A float is modelled by its *)
(* exact value m * 2^e: a record [m, e] with m a natural number, odd       *)
(* unless the value is 0 (then e is 0).  Only non-negative finite values   *)
(* occur.  An int argument is the float of the same value: every int the   *)
(* model meets is far below 2^53, where int and float arithmetic agree.    *)
(* The result of math.ceil is a TLA+ integer.                              *)
(*                                                                         *)
(* A natural number of any size is a sequence of limbs, least significant  *)
(* first, each in 0..Radix-1, the last one not 0; zero is <<>>.            *)
(***************************************************************************)

\* Python executes the statements of a function in the order written and
\* binds each local to a value before the next statement runs.
\* Local(v, [x \in T |-> body]) is body with x the value of v, of type T:
\* v is worked out once, before body, however often body uses x.
Local(v, body) == body[v]

\* the values of a Python float: m * 2^e, m as limbs
Float == [m : Seq(Nat), e : Int]

\* a quotient and a remainder, as limbs
QuotRem == [q : Seq(Nat), r : Seq(Nat)]

\* max(a, b) of two ints
Max(a, b) == IF a >= b THEN a ELSE b

Radix == 2^15

\* the i-th limb of a, 0 beyond its length
Limb(a, i) == IF 1 <= i /\ i <= Len(a) THEN a[i] ELSE 0

\* a without the zero limbs at its high end
NatNorm(a) ==
  IF a = <<>> THEN a
  ELSE IF a[Len(a)] # 0 THEN a
  ELSE SubSeq(a, 1, CHOOSE n \in 0..Len(a) :
                      /\ n = 0 \/ a[n] # 0
                      /\ \A j \in (n + 1)..Len(a) : a[j] = 0)

\* the natural number n, for n below 2^31
NatOf(n) == NatNorm(<<n % Radix, (n \div Radix) % Radix, n \div (Radix * Radix)>>)

\* the value of a, for a below 2^31
NatToInt(a) == Limb(a, 1) + Radix * Limb(a, 2) + Radix * Radix * Limb(a, 3)

\* a + b: limb by limb; a carry enters limb i when a lower limb sum
\* overflows and every limb sum between is Radix - 1
NatAdd(a, b) ==
  IF a = <<>> THEN NatNorm(b)
  ELSE IF b = <<>> THEN NatNorm(a)
  ELSE LET n        == IF Len(a) >= Len(b) THEN Len(a) ELSE Len(b)
           s        == [i \in 1..(n + 1) |-> Limb(a, i) + Limb(b, i)]
           carry(i) == \E j \in 1..(i - 1) :
                          /\ s[j] >= Radix
                          /\ \A k \in (j + 1)..(i - 1) : s[k] = Radix - 1
       IN  NatNorm([i \in 1..(n + 1) |->
                      (s[i] + IF carry(i) THEN 1 ELSE 0) % Radix])

\* a - b, for a >= b: a borrow leaves limb i when a lower limb difference
\* is negative and every limb difference between is 0
NatSub(a, b) ==
  IF b = <<>> THEN a
  ELSE LET d         == [i \in 1..Len(a) |-> a[i] - Limb(b, i)]
           borrow(i) == \E j \in 1..(i - 1) :
                           /\ d[j] < 0
                           /\ \A k \in (j + 1)..(i - 1) : d[k] = 0
       IN  NatNorm([i \in 1..Len(a) |->
                      (d[i] + Radix - IF borrow(i) THEN 1 ELSE 0) % Radix])

\* -1, 0 or 1 as a is less than, equal to or greater than b: the highest
\* limb in which they differ decides
NatCmp(a, b) ==
  IF Len(a) < Len(b) THEN -1
  ELSE IF Len(a) > Len(b) THEN 1
  ELSE IF a = b THEN 0
  ELSE LET i == CHOOSE i \in 1..Len(a) :
                  a[i] # b[i] /\ \A j \in (i + 1)..Len(a) : a[j] = b[j]
       IN  IF a[i] < b[i] THEN -1 ELSE 1

\* a * d, for d in 0..Radix: the low halves of the limb products, plus the
\* high halves one limb up
NatMulSmall(a, d) ==
  IF a = <<>> \/ d = 0 THEN <<>>
  ELSE NatAdd([i \in 1..Len(a) |-> (a[i] * d) % Radix],
              <<0>> \o [i \in 1..Len(a) |-> (a[i] * d) \div Radix])

\* a * Radix^k
ShiftLimbs(a, k) ==
  IF a = <<>> \/ k = 0 THEN a ELSE [i \in 1..k |-> 0] \o a

\* a * (the limbs of b from the i-th up), the i-th counting as units
RECURSIVE NatMulFrom(_, _, _)
NatMulFrom(a, b, i) ==
  IF i > Len(b) THEN <<>>
  ELSE NatAdd(ShiftLimbs(NatMulFrom(a, b, i + 1), 1), NatMulSmall(a, b[i]))

NatMul(a, b) ==
  IF a = <<>> \/ b = <<>> THEN <<>>
  ELSE IF Len(a) >= Len(b) THEN NatMulFrom(a, b, 1)
  ELSE NatMulFrom(b, a, 1)

\* a * 2^k
NatShl(a, k) ==
  IF a = <<>> \/ k = 0 THEN a
  ELSE LET z == k \div 15
           t == k % 15
       IN  NatNorm([i \in 1..(Len(a) + z + 1) |->
                      IF i <= z THEN 0
                      ELSE (Limb(a, i - z) % 2^(15 - t)) * 2^t
                           + Limb(a, i - z - 1) \div 2^(15 - t)])

\* floor(a / 2^k)
NatShr(a, k) ==
  IF a = <<>> \/ k = 0 THEN a
  ELSE LET z == k \div 15
           t == k % 15
       IN  NatNorm([i \in 1..(IF Len(a) > z THEN Len(a) - z ELSE 0) |->
                      a[i + z] \div 2^t
                      + (Limb(a, i + z + 1) % 2^t) * 2^(15 - t)])

\* number of binary digits of a limb
BitLenSmall(n) == CHOOSE k \in 0..15 : n < 2^k /\ (k = 0 \/ 2^(k - 1) <= n)

\* number of binary digits of a
NatBitLen(a) ==
  IF a = <<>> THEN 0 ELSE 15 * (Len(a) - 1) + BitLenSmall(a[Len(a)])

\* the largest of the 32 digits lo, lo + step, lo + 2 * step, ... whose
\* product with b is at most r, for b * lo <= r
DigitStep(r, b, lo, step) ==
  lo + step * (CHOOSE j \in 0..31 :
                 /\ NatCmp(NatMulSmall(b, lo + step * j), r) <= 0
                 /\ j = 31 \/ NatCmp(NatMulSmall(b, lo + step * (j + 1)), r) > 0)

\* the largest digit d in 0..Radix-1 with b * d <= r, found to the nearest
\* 1024, then 32, then 1
Digit(r, b) == DigitStep(r, b, DigitStep(r, b, DigitStep(r, b, 0, 1024), 32), 1)

\* quotient and remainder by b of the limbs of a from the i-th up: long
\* division, the higher limbs first.  The highest Len(b) - 1 limbs of a
\* are less than b and are the first remainder.
RECURSIVE NatDivModFrom(_, _, _)
NatDivModFrom(a, b, i) ==
  IF i > Len(a) - Len(b) + 1 THEN [q |-> <<>>, r |-> SubSeq(a, i, Len(a))]
  ELSE Local(NatDivModFrom(a, b, i + 1), [higher \in QuotRem |->
       Local(NatNorm(<<a[i]>> \o higher.r), [cur \in Seq(Nat) |->
       Local(Digit(cur, b), [d \in Nat |->
         [q |-> <<d>> \o higher.q, r |-> NatSub(cur, NatMulSmall(b, d))]])])])

\* quotient and remainder of a by b, for b # 0
NatDivMod(a, b) ==
  Local(NatDivModFrom(a, b, 1), [x \in QuotRem |-> [q |-> NatNorm(x.q), r |-> x.r]])

-----------------------------------------------------------------------------
(* float arithmetic *)

Zero == [m |-> <<>>, e |-> 0]

\* number of zero limbs below the lowest limb of m that is not 0, for m # 0
LowZeroLimbs(m) ==
  CHOOSE z \in 0..(Len(m) - 1) : m[z + 1] # 0 /\ \A j \in 1..z : m[j] = 0

\* number of zero binary digits at the low end of a limb that is not 0
LowZeroBits(n) == CHOOSE t \in 0..14 : n % 2^(t + 1) = 2^t

\* the float of exact value m * 2^e, m having at most 53 binary digits once
\* the zeros at its low end are dropped
FloatNorm(m, e) ==
  IF m = <<>> THEN Zero
  ELSE Local(LowZeroLimbs(m), [z \in Nat |->
       Local(LowZeroBits(m[z + 1]), [t \in Nat |->
         [m |-> NatShr(m, 15 * z + t), e |-> e + 15 * z + t]])])

\* the float nearest to a value v with m * 2^e <= v < (m + 1) * 2^e, where
\* v = m * 2^e unless sticky: 53 significant digits are kept and a tie goes
\* to the even neighbour.  With sticky, m has more than 54 digits.
FloatRound(m, e, sticky) ==
  IF NatBitLen(m) <= 53 THEN FloatNorm(m, e)
  ELSE Local(NatBitLen(m) - 53, [s \in Nat |->
       Local(NatShr(m, s), [q \in Seq(Nat) |->
       Local(NatCmp(NatSub(m, NatShl(q, s)), NatShl(<<1>>, s - 1)), [c \in Int |->
         IF c > 0 \/ (c = 0 /\ (sticky \/ q[1] % 2 = 1))
         THEN FloatNorm(NatAdd(q, <<1>>), e + s)
         ELSE FloatNorm(q, e + s)])])])

\* float(n) of an int n >= 0
FloatOfInt(n) == FloatNorm(NatOf(n), 0)

\* x * y
FloatMul(x, y) ==
  IF x.m = <<>> \/ y.m = <<>> THEN Zero
  ELSE Local(NatMul(x.m, y.m), [product \in Seq(Nat) |->
         FloatRound(product, x.e + y.e, FALSE)])

\* x + y
FloatAdd(x, y) ==
  IF x.m = <<>> THEN y
  ELSE IF y.m = <<>> THEN x
  ELSE Local(IF x.e < y.e THEN x.e ELSE y.e, [e \in Int |->
       Local(NatAdd(NatShl(x.m, x.e - e), NatShl(y.m, y.e - e)), [sum \in Seq(Nat) |->
         FloatRound(sum, e, FALSE)])])

\* x / y, for y # 0: the quotient of the mantissas is taken to 55 or more
\* binary digits and the remainder makes the result sticky
FloatDiv(x, y) ==
  IF x.m = <<>> THEN Zero
  ELSE Local(Max(0, 55 + NatBitLen(y.m) - NatBitLen(x.m)), [k \in Nat |->
       Local(NatDivMod(NatShl(x.m, k), y.m), [d \in QuotRem |->
         FloatRound(d.q, x.e - y.e - k, d.r # <<>>)])])

\* math.ceil(x): an odd m with e < 0 is not a whole number
Ceil(x) ==
  IF x.e >= 0 THEN NatToInt(NatShl(x.m, x.e))
  ELSE NatToInt(NatShr(x.m, 0 - x.e)) + 1

\* -1, 0 or 1 as x is less than, equal to or greater than y
FloatCmp(x, y) ==
  IF x = y THEN 0
  ELSE Local(IF x.e < y.e THEN x.e ELSE y.e, [e \in Int |->
         NatCmp(NatShl(x.m, x.e - e), NatShl(y.m, y.e - e))])

\* the nearest whole number to m * 2^e, ties to even
NearestInt(m, e) ==
  IF e >= 0 THEN NatShl(m, e)
  ELSE Local(NatShr(m, 0 - e), [q \in Seq(Nat) |->
       Local(NatCmp(NatSub(m, NatShl(q, 0 - e)), NatShl(<<1>>, 0 - e - 1)), [c \in Int |->
         IF c > 0 \/ (c = 0 /\ q # <<>> /\ q[1] % 2 = 1)
         THEN NatAdd(q, <<1>>) ELSE q])])

\* round(x, ndigits): the float nearest to the decimal of ndigits places
\* nearest to x
Round(x, ndigits) ==
  Local(NearestInt(NatMul(x.m, NatOf(10^ndigits)), x.e), [whole \in Seq(Nat) |->
    FloatDiv(FloatNorm(whole, 0), FloatOfInt(10^ndigits))])

\* the float a decimal literal of value n / d denotes
Decimal(n, d) == FloatDiv(FloatOfInt(n), FloatOfInt(d))

-----------------------------------------------------------------------------
(* MaterialCalculator.  Each calculator returns a dict, modelled by the    *)
(* record of its numeric fields and its code reference; a str that is only *)
(* compared or returned is a TLA+ string.  The "note" texts are left out.  *)

(* calculate_wire_length *)

\* math.ceil(with_waste / 25) * 25
RoundUpToRoll(with_waste) == Ceil(FloatDiv(with_waste, FloatOfInt(25))) * 25

calculate_wire_length(circuit_length_feet, num_circuits, waste_factor) ==
  Local(FloatMul(FloatMul(circuit_length_feet, FloatOfInt(2)),
                 FloatOfInt(num_circuits)), [total_feet \in Float |->
  Local(FloatMul(total_feet, FloatAdd(FloatOfInt(1), waste_factor)),
        [with_waste \in Float |->
    [base_feet        |-> total_feet,
     with_waste       |-> with_waste,
     recommended_feet |-> RoundUpToRoll(with_waste),
     waste_factor     |-> waste_factor]])])

(* calculate_outlets_needed *)

\* the bathroom rule without its minimum of one outlet
SpacingOnlyOutlets(room_perimeter_feet) ==
  Ceil(FloatDiv(room_perimeter_feet, FloatOfInt(12)))

\* max(1, math.ceil(room_perimeter_feet / 12))
BathroomOutlets(room_perimeter_feet) ==
  Max(1, Ceil(FloatDiv(room_perimeter_feet, FloatOfInt(12))))

calculate_outlets_needed(room_perimeter_feet, room_type) ==
  Local(IF room_type = "kitchen"
        THEN Local(FloatMul(room_perimeter_feet, Decimal(5, 10)),
                   [countertop_length \in Float |->
               [outlets  |-> Ceil(FloatDiv(countertop_length, FloatOfInt(4))),
                code_ref |-> "NEC 210.52(C)(1)"]])
        ELSE IF room_type = "bathroom"
        THEN [outlets  |-> BathroomOutlets(room_perimeter_feet),
              code_ref |-> "NEC 210.52(D)"]
        ELSE [outlets  |-> Ceil(FloatDiv(room_perimeter_feet, FloatOfInt(12))),
              code_ref |-> "NEC 210.52(A)(1)"], [rule \in [outlets : Nat, code_ref : STRING] |->
    [outlets_needed |-> rule.outlets,
     room_type      |-> room_type,
     perimeter_feet |-> room_perimeter_feet,
     code_reference |-> rule.code_ref]])

(* calculate_tile_needed *)

\* tiles_per_case
TilesPerCase == 10

\* the tiles with no waste added
TilesWithoutWaste(base_tiles, waste_factor) == base_tiles

\* math.ceil(base_tiles * (1 + waste_factor))
TilesWithWaste(base_tiles, waste_factor) ==
  Ceil(FloatMul(FloatOfInt(base_tiles), FloatAdd(FloatOfInt(1), waste_factor)))

\* math.ceil(total_tiles / tiles_per_case)
CasesNeeded(total_tiles) ==
  Ceil(FloatDiv(FloatOfInt(total_tiles), FloatOfInt(TilesPerCase)))

\* tile_size_inches is the pair <<width, height>>
calculate_tile_needed(area_sq_ft, tile_size_inches, waste_factor) ==
  Local(FloatDiv(FloatOfInt(tile_size_inches[1]), FloatOfInt(12)),
        [tile_width_ft \in Float |->
  Local(FloatDiv(FloatOfInt(tile_size_inches[2]), FloatOfInt(12)),
        [tile_height_ft \in Float |->
  Local(FloatMul(tile_width_ft, tile_height_ft), [tile_area \in Float |->
  Local(Ceil(FloatDiv(area_sq_ft, tile_area)), [base_tiles \in Nat |->
  Local(TilesWithWaste(base_tiles, waste_factor), [total_tiles \in Nat |->
  Local(CasesNeeded(total_tiles), [cases_needed \in Nat |->
  Local(FloatMul(FloatOfInt(cases_needed * TilesPerCase), tile_area),
        [total_coverage \in Float |->
    [area_sq_ft           |-> area_sq_ft,
     tiles_needed         |-> total_tiles,
     cases_needed         |-> cases_needed,
     total_tiles          |-> cases_needed * TilesPerCase,
     total_coverage_sq_ft |-> Round(total_coverage, 1),
     waste_factor         |-> waste_factor]])])])])])])])

(* calculate_paint_needed *)

\* the gallons rounded to the nearest whole number
NearestGallons(gallons_needed) ==
  NatToInt(NearestInt(gallons_needed.m, gallons_needed.e))

\* math.ceil(gallons_needed)
GallonsToBuy(gallons_needed) == Ceil(gallons_needed)

calculate_paint_needed(area_sq_ft, coats, coverage_per_gallon) ==
  Local(FloatMul(area_sq_ft, FloatOfInt(coats)), [total_area \in Float |->
  Local(FloatDiv(total_area, FloatOfInt(coverage_per_gallon)),
        [gallons_needed \in Float |->
    [area_sq_ft          |-> area_sq_ft,
     coats               |-> coats,
     total_area_to_cover |-> total_area,
     gallons_needed      |-> Round(gallons_needed, 2),
     gallons_to_buy      |-> GallonsToBuy(gallons_needed),
     coverage_per_gallon |-> coverage_per_gallon]])])

(* calculate_lumber_for_deck.  The texts of the result (deck_size, the     *)
(* sizes, the notes) are left out; the nested dicts are nested records.    *)

\* math.ceil((deck_width_ft * 12) / joist_spacing_inches) + 1
NumJoists(deck_width_ft, joist_spacing_inches) ==
  Ceil(FloatDiv(FloatMul(deck_width_ft, FloatOfInt(12)),
                FloatOfInt(joist_spacing_inches))) + 1

calculate_lumber_for_deck(deck_length_ft, deck_width_ft, joist_spacing_inches, board_width_inches) ==
  Local(FloatMul(deck_length_ft, deck_width_ft), [area_sq_ft \in Float |->
  Local(NumJoists(deck_width_ft, joist_spacing_inches), [num_joists \in Nat |->
  Local(FloatDiv(board_width_inches, FloatOfInt(12)), [board_width_ft \in Float |->
  Local(Ceil(FloatDiv(deck_length_ft, board_width_ft)), [num_boards \in Nat |->
  Local(Ceil(FloatDiv(deck_length_ft, FloatOfInt(6))), [posts_length \in Nat |->
  Local(Ceil(FloatDiv(deck_width_ft, FloatOfInt(6))), [posts_width \in Nat |->
    [area_sq_ft     |-> area_sq_ft,
     joists         |-> [quantity |-> num_joists,
                         spacing  |-> joist_spacing_inches],
     decking_boards |-> [quantity |-> num_boards],
     posts          |-> [quantity |-> posts_length * posts_width]]])])])])])])

(* calculate_pex_pipe *)

\* a whole number of 300 ft coils, with no 100 ft coil
WholeCoilsOf300(feet) ==
  Ceil(FloatDiv(FloatOfInt(feet), FloatOfInt(300))) * 300

\* round_to_coil(feet), the function local to calculate_pex_pipe
round_to_coil(feet) ==
  IF feet <= 100 THEN 100
  ELSE IF feet <= 300 THEN 300
  ELSE Ceil(FloatDiv(FloatOfInt(feet), FloatOfInt(300))) * 300

\* hot_pipe_feet and cold_pipe_feet, as the pair [hot, cold]
PipeFeet(num_fixtures, avg_distance_per_fixture, manifold_system) ==
  IF manifold_system
  THEN Local(Ceil(FloatMul(FloatOfInt(num_fixtures), Decimal(6, 10))),
             [hot_water_fixtures \in Nat |->
         [hot  |-> FloatMul(FloatOfInt(hot_water_fixtures),
                            avg_distance_per_fixture),
          cold |-> FloatMul(FloatOfInt(num_fixtures),
                            avg_distance_per_fixture)]])
  ELSE [hot  |-> FloatMul(FloatMul(FloatMul(FloatOfInt(num_fixtures),
                                            Decimal(6, 10)),
                                   avg_distance_per_fixture),
                          Decimal(7, 10)),
        cold |-> FloatMul(FloatMul(FloatOfInt(num_fixtures),
                                   avg_distance_per_fixture),
                          Decimal(7, 10))]

calculate_pex_pipe(num_fixtures, avg_distance_per_fixture, manifold_system) ==
  Local(PipeFeet(num_fixtures, avg_distance_per_fixture, manifold_system),
        [pipe_feet \in [hot : Float, cold : Float] |->
  Local(Ceil(FloatMul(pipe_feet.hot, Decimal(12, 10))), [hot_total \in Nat |->
  Local(Ceil(FloatMul(pipe_feet.cold, Decimal(12, 10))), [cold_total \in Nat |->
    [system_type     |-> IF manifold_system THEN "Manifold (home-run)"
                         ELSE "Trunk-and-branch",
     fixtures        |-> num_fixtures,
     hot_water_pipe  |-> [feet_needed |-> hot_total,
                          feet_to_buy |-> round_to_coil(hot_total)],
     cold_water_pipe |-> [feet_needed |-> cold_total,
                          feet_to_buy |-> round_to_coil(cold_total)]]])])])

-----------------------------------------------------------------------------
(* The calls the model makes of the calculators *)

\* largest num_circuits a caller passes
MaxCircuits == 2

\* largest number of coats a caller passes
MaxCoats == 2

\* the defaults of the signatures
DefaultWireWaste == Decimal(15, 100)

DefaultTileWaste == Decimal(10, 100)

\* waste factors a caller passes, in hundredths: 0, 0.10, 0.15 and 0.25
WastePercents == {0, 10, 15, 25}

WasteFactors == {Decimal(percent, 100) : percent \in WastePercents}

\* circuit lengths in feet: 10, 12.5, 20, 50 and 100
CircuitLengths ==
  {FloatOfInt(10), Decimal(125, 10), FloatOfInt(20), FloatOfInt(50),
   FloatOfInt(100)}

\* room perimeters in feet: 0, 10, 12, 24.5, 48 and 60
Perimeters ==
  {Zero, FloatOfInt(10), FloatOfInt(12), Decimal(245, 10), FloatOfInt(48),
   FloatOfInt(60)}

RoomTypes == {"kitchen", "bathroom", "living", "garage", "closet"}

\* areas in square feet: 0, 12.5, 50, 100, 120 and 400
Areas ==
  {Zero, Decimal(125, 10), FloatOfInt(50), FloatOfInt(100), FloatOfInt(120),
   FloatOfInt(400)}

\* tile sizes in inches
TileSizes == {<<12, 12>>, <<6, 6>>, <<4, 4>>, <<12, 24>>}

\* square feet one gallon covers
Coverages == {250, 350, 400}

\* deck lengths in feet: 8, 11, 12, 20 and 36.25
DeckLengths ==
  {FloatOfInt(8), FloatOfInt(11), FloatOfInt(12), FloatOfInt(20),
   Decimal(3625, 100)}

\* deck widths in feet: 0.5, 7.5, 12 and 16
DeckWidths == {Decimal(5, 10), Decimal(75, 10), FloatOfInt(12), FloatOfInt(16)}

\* joist spacings in inches, 16 the default
JoistSpacings == {12, 16}

\* the default board width, 5.5 inches (a 2x6)
DefaultBoardWidth == Decimal(55, 10)

\* board widths in inches: 3.5, 5.5 and 7.25 (a 2x4, a 2x6, a 2x8)
BoardWidths == {Decimal(35, 10), DefaultBoardWidth, Decimal(725, 100)}

\* largest num_fixtures a caller passes
MaxFixtures == 12

\* the default run to a fixture, 30 feet
DefaultDistance == FloatOfInt(30)

\* average runs in feet: 10, 12.5, 25 and 30
Distances == {FloatOfInt(10), Decimal(125, 10), FloatOfInt(25), DefaultDistance}

-----------------------------------------------------------------------------
(* The state machine: the calculator tools of the material server *)

InitCalc ==
  /\ op = "idle"
  /\ args = <<>>
  /\ ret = <<>>
  /\ codes = <<>>
  /\ memo = None
  /\ data_file_found = FALSE
  /\ mock_products = <<>>
  /\ NoDatabase
  /\ NoChat

WireLength ==
  /\ op = "idle"
  /\ \E circuit_length_feet \in CircuitLengths, num_circuits \in 1..MaxCircuits,
        waste_factor \in WasteFactors :
       /\ op' = "calculate_wire_length"
       /\ args' = [circuit_length_feet |-> circuit_length_feet,
                   num_circuits |-> num_circuits,
                   waste_factor |-> waste_factor]
       /\ ret' = calculate_wire_length(circuit_length_feet, num_circuits,
                                       waste_factor)
  /\ UNCHANGED <<codes, memo, data_file_found, mock_products,
                 database_vars, chat_vars>>

OutletsNeeded ==
  /\ op = "idle"
  /\ \E room_perimeter_feet \in Perimeters, room_type \in RoomTypes :
       /\ op' = "calculate_outlets_needed"
       /\ args' = [room_perimeter_feet |-> room_perimeter_feet,
                   room_type |-> room_type]
       /\ ret' = calculate_outlets_needed(room_perimeter_feet, room_type)
  /\ UNCHANGED <<codes, memo, data_file_found, mock_products,
                 database_vars, chat_vars>>

TileNeeded ==
  /\ op = "idle"
  /\ \E area_sq_ft \in Areas, tile_size_inches \in TileSizes,
        waste_factor \in WasteFactors :
       /\ op' = "calculate_tile_needed"
       /\ args' = [area_sq_ft |-> area_sq_ft,
                   tile_size_inches |-> tile_size_inches,
                   waste_factor |-> waste_factor]
       /\ ret' = calculate_tile_needed(area_sq_ft, tile_size_inches,
                                       waste_factor)
  /\ UNCHANGED <<codes, memo, data_file_found, mock_products,
                 database_vars, chat_vars>>

PaintNeeded ==
  /\ op = "idle"
  /\ \E area_sq_ft \in Areas, coats \in 1..MaxCoats,
        coverage_per_gallon \in Coverages :
       /\ op' = "calculate_paint_needed"
       /\ args' = [area_sq_ft |-> area_sq_ft, coats |-> coats,
                   coverage_per_gallon |-> coverage_per_gallon]
       /\ ret' = calculate_paint_needed(area_sq_ft, coats, coverage_per_gallon)
  /\ UNCHANGED <<codes, memo, data_file_found, mock_products,
                 database_vars, chat_vars>>

DeckLumber ==
  /\ op = "idle"
  /\ \E deck_length_ft \in DeckLengths, deck_width_ft \in DeckWidths,
        joist_spacing_inches \in JoistSpacings,
        board_width_inches \in BoardWidths :
       /\ op' = "calculate_lumber_for_deck"
       /\ args' = [deck_length_ft |-> deck_length_ft,
                   deck_width_ft |-> deck_width_ft,
                   joist_spacing_inches |-> joist_spacing_inches,
                   board_width_inches |-> board_width_inches]
       /\ ret' = calculate_lumber_for_deck(deck_length_ft, deck_width_ft,
                                           joist_spacing_inches,
                                           board_width_inches)
  /\ UNCHANGED <<codes, memo, data_file_found, mock_products,
                 database_vars, chat_vars>>

PexPipe ==
  /\ op = "idle"
  /\ \E num_fixtures \in 0..MaxFixtures,
        avg_distance_per_fixture \in Distances, manifold_system \in BOOLEAN :
       /\ op' = "calculate_pex_pipe"
       /\ args' = [num_fixtures |-> num_fixtures,
                   avg_distance_per_fixture |-> avg_distance_per_fixture,
                   manifold_system |-> manifold_system]
       /\ ret' = calculate_pex_pipe(num_fixtures, avg_distance_per_fixture,
                                    manifold_system)
  /\ UNCHANGED <<codes, memo, data_file_found, mock_products,
                 database_vars, chat_vars>>

\* the tool handler has formatted the result and returns
RespondCalc ==
  /\ op # "idle"
  /\ op' = "idle"
  /\ args' = <<>>
  /\ ret' = <<>>
  /\ UNCHANGED <<codes, memo, data_file_found, mock_products,
                 database_vars, chat_vars>>

NextCalc ==
  \/ WireLength
  \/ OutletsNeeded
  \/ TileNeeded
  \/ PaintNeeded
  \/ DeckLumber
  \/ PexPipe
  \/ RespondCalc

SpecCalc == InitCalc /\ [][NextCalc]_vars

-----------------------------------------------------------------------------
(* Vocabulary of the calculator properties: exact comparisons.  A float is *)
(* the rational m * 2^e, and FloatCmp compares such values exactly, also   *)
(* when m is even.                                                         *)

\* the exact product of a float and an int k in 0..Radix
TimesInt(x, k) == [m |-> NatMulSmall(x.m, k), e |-> x.e]

\* the int n equals, is at least, is less than the value x
IntEquals(n, x)  == FloatCmp(FloatOfInt(n), x) = 0
IntAtLeast(n, x) == FloatCmp(FloatOfInt(n), x) >= 0
IntBelow(n, x)   == FloatCmp(FloatOfInt(n), x) < 0

\* n is the smallest whole number that is at least x
IsCeiling(n, x) == IntAtLeast(n, x) /\ (n = 0 \/ IntBelow(n - 1, x))

\* n is the smallest whole number with n * d at least x
IsCeilingOfQuotient(n, x, d) ==
  IntAtLeast(n * d, x) /\ (n = 0 \/ IntBelow((n - 1) * d, x))

\* the hundredths of which waste_factor is the float
PercentOf(waste_factor) ==
  CHOOSE percent \in WastePercents : Decimal(percent, 100) = waste_factor

-----------------------------------------------------------------------------
(* C16: calculate_wire_length returns base_feet = circuit_length_feet * 2  *)
(* * num_circuits, with_waste = base_feet * (1 + waste_factor) and         *)
(* recommended_feet the smallest multiple of 25 that is at least           *)
(* with_waste; for circuit_length_feet = 50, num_circuits = 1 and the      *)
(* default waste factor this gives base_feet = 100, with_waste = 115.0 and *)
(* recommended_feet = 125.                                                 *)

WireScenario ==
  /\ op = "calculate_wire_length"
  /\ args.circuit_length_feet = FloatOfInt(50)
  /\ args.num_circuits = 1
  /\ args.waste_factor = DefaultWireWaste

\* C16: the three formulas, in exact arithmetic, and the scenario
C16_WireLength ==
  op = "calculate_wire_length" =>
    /\ FloatCmp(ret.base_feet,
                TimesInt(args.circuit_length_feet, 2 * args.num_circuits)) = 0
    /\ FloatCmp(TimesInt(ret.with_waste, 100),
                TimesInt(ret.base_feet, 100 + PercentOf(args.waste_factor))) = 0
    /\ ret.recommended_feet % 25 = 0
    /\ IntAtLeast(ret.recommended_feet, ret.with_waste)
    /\ ret.recommended_feet = 0
         \/ IntBelow(ret.recommended_feet - 25, ret.with_waste)
    /\ WireScenario =>
         /\ IntEquals(100, ret.base_feet)
         /\ IntEquals(115, ret.with_waste)
         /\ ret.recommended_feet = 125

-----------------------------------------------------------------------------
(* C17: calculate_outlets_needed returns ceil((perimeter * 0.5) / 4) with  *)
(* reference NEC 210.52(C)(1) for a kitchen, max(1, ceil(perimeter / 12))  *)
(* with NEC 210.52(D) for a bathroom, so at least 1, and ceil(perimeter /  *)
(* 12) with NEC 210.52(A)(1) for every other room type, garage and         *)
(* unrecognised ones included; a kitchen of perimeter 48 needs 6.          *)

C17_OutletsNeeded ==
  op = "calculate_outlets_needed" =>
    LET n == ret.outlets_needed
        p == args.room_perimeter_feet
    IN  /\ args.room_type = "kitchen" =>
             /\ IsCeilingOfQuotient(n, p, 8)
             /\ ret.code_reference = "NEC 210.52(C)(1)"
             /\ p = FloatOfInt(48) => n = 6
        /\ args.room_type = "bathroom" =>
             /\ n >= 1
             /\ \/ IsCeilingOfQuotient(n, p, 12)
                \/ n = 1 /\ IsCeilingOfQuotient(0, p, 12)
             /\ ret.code_reference = "NEC 210.52(D)"
        /\ args.room_type \notin {"kitchen", "bathroom"} =>
             /\ IsCeilingOfQuotient(n, p, 12)
             /\ ret.code_reference = "NEC 210.52(A)(1)"

\* a bathroom without perimeter has got its one outlet
C17_Witness ==
  /\ op = "calculate_outlets_needed"
  /\ args.room_type = "bathroom"
  /\ args.room_perimeter_feet = Zero
  /\ ret.outlets_needed = 1

-----------------------------------------------------------------------------
(* C18: calculate_tile_needed computes base = ceil(area / ((w/12) *        *)
(* (h/12))), tiles_needed = ceil(base * (1 + waste_factor)), cases_needed  *)
(* = ceil(tiles_needed / 10) and total_tiles = cases_needed * 10, so for   *)
(* every waste_factor >= 0: base <= tiles_needed <= total_tiles <          *)
(* tiles_needed + 10 and total_tiles is a multiple of 10.                  *)

\* the tiles that cover the area in args, before waste
BaseTiles ==
  Local(FloatMul(FloatDiv(FloatOfInt(args.tile_size_inches[1]), FloatOfInt(12)),
                 FloatDiv(FloatOfInt(args.tile_size_inches[2]), FloatOfInt(12))),
        [tile_area \in Float |-> Ceil(FloatDiv(args.area_sq_ft, tile_area))])

\* C18: the ceiling at each stage, in exact arithmetic, and the chain of
\* inequalities
C18_TileNeeded ==
  op = "calculate_tile_needed" =>
    LET base      == BaseTiles
        tile_area == args.tile_size_inches[1] * args.tile_size_inches[2]
        percent   == PercentOf(args.waste_factor)
    IN  /\ IsCeilingOfQuotient(base, TimesInt(args.area_sq_ft, 144), tile_area)
        /\ 100 * ret.tiles_needed >= base * (100 + percent)
        /\ 100 * (ret.tiles_needed - 1) < base * (100 + percent)
        /\ ret.cases_needed * 10 >= ret.tiles_needed
        /\ (ret.cases_needed - 1) * 10 < ret.tiles_needed
        /\ ret.total_tiles = ret.cases_needed * 10
        /\ base <= ret.tiles_needed
        /\ ret.tiles_needed <= ret.total_tiles
        /\ ret.total_tiles < ret.tiles_needed + 10
        /\ ret.total_tiles % 10 = 0

-----------------------------------------------------------------------------
(* C19: calculate_tile_needed(120, (12, 12)) with the default waste factor *)
(* returns tiles_needed = 144 and a case count consistent with 10 tiles    *)
(* per case.                                                               *)

TileScenario ==
  /\ op = "calculate_tile_needed"
  /\ args.area_sq_ft = FloatOfInt(120)
  /\ args.tile_size_inches = <<12, 12>>
  /\ args.waste_factor = DefaultTileWaste

\* C19: the scenario reports 144 tiles and cases of 10 that hold them
C19_TileScenario144 ==
  TileScenario =>
    /\ ret.tiles_needed = 144
    /\ ret.cases_needed * 10 >= ret.tiles_needed
    /\ (ret.cases_needed - 1) * 10 < ret.tiles_needed

(* C19, amended: that call returns tiles_needed = 132 (120 tiles and 10%   *)
(* waste), cases_needed = 14 and total_tiles = 140.                        *)

\* C19, amended: the scenario reports 132 tiles, 14 cases, 140 tiles bought
C19_TileScenario132 ==
  TileScenario =>
    /\ ret.tiles_needed = 132
    /\ ret.cases_needed = 14
    /\ ret.total_tiles = 140

C19_Witness == TileScenario /\ ret.cases_needed * 10 = ret.total_tiles

-----------------------------------------------------------------------------
(* C20: calculate_paint_needed returns total_area_to_cover = area * coats  *)
(* and gallons_to_buy = ceil(total_area_to_cover / coverage_per_gallon),   *)
(* the smallest whole number of gallons whose coverage is at least the     *)
(* total area; gallons_needed is the quotient rounded to 2 decimals and    *)
(* does not exceed gallons_to_buy.                                         *)

\* the hundredths the returned gallons_needed stands for
Hundredths ==
  NatToInt(NearestInt(NatMulSmall(ret.gallons_needed.m, 100),
                      ret.gallons_needed.e))

\* C20: total area, gallons to buy as the exact ceiling, gallons needed as
\* the quotient to the nearest hundredth and at most the gallons to buy
C20_PaintNeeded ==
  op = "calculate_paint_needed" =>
    LET total    == ret.total_area_to_cover
        g        == ret.gallons_to_buy
        coverage == args.coverage_per_gallon
        h        == Hundredths
    IN  /\ FloatCmp(total, TimesInt(args.area_sq_ft, args.coats)) = 0
        /\ IsCeilingOfQuotient(g, total, coverage)
        /\ ret.gallons_needed = Decimal(h, 100)
        /\ FloatCmp(TimesInt(total, 200), FloatOfInt((2 * h + 1) * coverage)) <= 0
        /\ h = 0
             \/ FloatCmp(TimesInt(total, 200),
                         FloatOfInt((2 * h - 1) * coverage)) >= 0
        /\ FloatCmp(ret.gallons_needed, FloatOfInt(g)) <= 0

\* 400 square feet in two coats at 350 per gallon: 2.29 gallons, 3 to buy
C20_Witness ==
  /\ op = "calculate_paint_needed"
  /\ args.area_sq_ft = FloatOfInt(400)
  /\ args.coats = 2
  /\ args.coverage_per_gallon = 350
  /\ ret.gallons_needed = Decimal(229, 100)
  /\ ret.gallons_to_buy = 3

-----------------------------------------------------------------------------
(* C21: calculate_lumber_for_deck returns joists.quantity = ceil((width *   *)
(* 12) / joist_spacing) + 1, decking_boards.quantity = ceil(length /       *)
(* (board_width / 12)) and posts.quantity = ceil(length / 6) * ceil(width  *)
(* / 6); for every positive length and width the three quantities are at   *)
(* least 1 and joists.quantity is at least 2.                              *)

\* n is the smallest whole number with n * y at least x, x and y floats
IsCeilingOfRatio(n, x, y) ==
  /\ FloatCmp(TimesInt(y, n), x) >= 0
  /\ n = 0 \/ FloatCmp(TimesInt(y, n - 1), x) < 0

\* C21: the three quantities are the ceilings of the exact quotients, and
\* their lower bounds
C21_DeckLumber ==
  op = "calculate_lumber_for_deck" =>
    LET joists == ret.joists.quantity
        boards == ret.decking_boards.quantity
        posts  == ret.posts.quantity
    IN  /\ IsCeilingOfQuotient(joists - 1, TimesInt(args.deck_width_ft, 12),
                               args.joist_spacing_inches)
        /\ IsCeilingOfRatio(boards, TimesInt(args.deck_length_ft, 12),
                            args.board_width_inches)
        /\ \E posts_length, posts_width \in 0..posts :
              /\ IsCeilingOfQuotient(posts_length, args.deck_length_ft, 6)
              /\ IsCeilingOfQuotient(posts_width, args.deck_width_ft, 6)
              /\ posts = posts_length * posts_width
        /\ (args.deck_length_ft # Zero /\ args.deck_width_ft # Zero) =>
              joists >= 2 /\ boards >= 1 /\ posts >= 1

-----------------------------------------------------------------------------
(* C22: calculate_pex_pipe computes, in manifold mode, hot = ceil(fixtures *)
(* * 0.6) * distance and cold = fixtures * distance, and in trunk mode hot *)
(* = fixtures * 0.6 * distance * 0.7 and cold = fixtures * distance * 0.7; *)
(* feet_needed = ceil(raw * 1.2) for each line; feet_to_buy is 100 when    *)
(* feet_needed <= 100, 300 when 100 < feet_needed <= 300, otherwise the    *)
(* smallest multiple of 300 that is at least feet_needed.  So feet_to_buy  *)
(* >= feet_needed and feet_to_buy is 100 or a positive multiple of 300;    *)
(* for 8 fixtures, manifold, distance 30 the hot line needs 180 ft and the *)
(* cold line 288 ft, both bought as 300.                                   *)

\* the coil rule between the two fields of one line of the result
CoilRule(pipe) ==
  LET needed == pipe.feet_needed
      buy    == pipe.feet_to_buy
  IN  /\ needed <= 100 => buy = 100
      /\ (100 < needed /\ needed <= 300) => buy = 300
      /\ needed > 300 => buy % 300 = 0 /\ buy >= needed /\ buy - 300 < needed
      /\ buy >= needed
      /\ buy = 100 \/ (buy > 0 /\ buy % 300 = 0)

PexScenario ==
  /\ op = "calculate_pex_pipe"
  /\ args.num_fixtures = 8
  /\ args.manifold_system
  /\ args.avg_distance_per_fixture = FloatOfInt(30)

\* C22: the feet needed as ceilings in exact arithmetic (0.6, 0.7 and 1.2
\* as 6/10, 7/10 and 12/10), the coil rule, and the scenario
C22_PexPipe ==
  op = "calculate_pex_pipe" =>
    LET n        == args.num_fixtures
        distance == args.avg_distance_per_fixture
        hot      == ret.hot_water_pipe
        cold     == ret.cold_water_pipe
    IN  /\ args.manifold_system =>
              /\ \E hot_fixtures \in 0..n :
                    /\ 10 * hot_fixtures >= 6 * n
                    /\ 10 * (hot_fixtures - 1) < 6 * n
                    /\ IsCeilingOfQuotient(hot.feet_needed,
                                           TimesInt(distance, 12 * hot_fixtures),
                                           10)
              /\ IsCeilingOfQuotient(cold.feet_needed,
                                     TimesInt(distance, 12 * n), 10)
        /\ ~args.manifold_system =>
              /\ IsCeilingOfQuotient(hot.feet_needed,
                                     TimesInt(distance, 504 * n), 1000)
              /\ IsCeilingOfQuotient(cold.feet_needed,
                                     TimesInt(distance, 84 * n), 100)
        /\ CoilRule(hot)
        /\ CoilRule(cold)
        /\ PexScenario =>
              /\ hot.feet_needed = 180 /\ hot.feet_to_buy = 300
              /\ cold.feet_needed = 288 /\ cold.feet_to_buy = 300

\* 12 fixtures on a manifold at 30 feet: 288 ft of hot pipe bought as 300,
\* 432 ft of cold pipe bought as 600
C22_Witness ==
  /\ op = "calculate_pex_pipe"
  /\ args.num_fixtures = 12
  /\ args.manifold_system
  /\ args.avg_distance_per_fixture = FloatOfInt(30)
  /\ ret.hot_water_pipe = [feet_needed |-> 288, feet_to_buy |-> 300]
  /\ ret.cold_water_pipe = [feet_needed |-> 432, feet_to_buy |-> 600]

-----------------------------------------------------------------------------
(***************************************************************************)
(* Part 4: product_database.py, class ProductDatabase, over the suppliers  *)
(* of self.suppliers, and the find_alternatives tool of server.py.         *)
(*                                                                         *)
(* suppliers is the list of the suppliers' product lists, in the order of  *)
(* self.suppliers.values(); every supplier searches as HomeDepotSupplier   *)
(* does, the one supplier class there is.  search_all_suppliers starts one *)
(* search task per supplier and awaits asyncio.gather: tasks holds the     *)
(* arguments of the searches, what each task has come to, the order in     *)
(* which the tasks finished and whether gather has returned.  A call that  *)
(* returns leaves [raised |-> FALSE, ...] in ret, one that ends in an      *)
(* exception [raised |-> TRUE, ...].                                       *)
(***************************************************************************)

\* the products of a second supplier: a name that differs from Southwire's
\* in case and surrounding blanks only, two wires at Cerrowire's price (one
\* of its rating, one unrated), and a receptacle under Eaton's name
OtherProducts ==
  << [Southwire EXCEPT !.id = "LW-1001",
                       !.name = <<" ", " ">> \o Lower(Southwire.name) \o <<" ">>,
                       !.price = 8500, !.rating = None],
     [Cerrowire EXCEPT !.id = "LW-1002",
                       !.name = <<"R", "o", "m", "e", "x", " ", "W", "i", "r", "e">>],
     [Cerrowire EXCEPT !.id = "LW-1003",
                       !.name = <<"C", "o", "p", "p", "e", "r", " ", "W", "i", "r", "e">>,
                       !.rating = None],
     [Eaton EXCEPT !.id = "LW-2001", !.price = 1100, !.rating = Some(40)] >>

\* what a task has come to
TaskPending  == [status |-> "pending", value |-> <<>>]
TaskRaised   == [status |-> "raised", value |-> <<>>]
TaskReturned(value) == [status |-> "returned", value |-> value]

\* the tasks of a search with the given arguments, none finished
NewTasks(search_args) ==
  [search   |-> search_args,
   results  |-> [i \in 1..Len(suppliers) |-> TaskPending],
   done     |-> <<>>,
   gathered |-> FALSE]

\* asyncio.gather(*tasks) without return_exceptions: an exception of a task
\* is raised to the caller
PropagatingGather(t) ==
  [raised  |-> \E i \in 1..Len(t.results) : t.results[i].status = "raised",
   results |-> t.results]

\* the results in the order in which the tasks finished
CompletionOrderGather(t) ==
  [raised  |-> FALSE,
   results |-> [k \in 1..Len(t.done) |-> t.results[t.done[k]]]]

\* await asyncio.gather(*tasks, return_exceptions=True), every task having
\* finished: the results in the order of the tasks, an exception that a
\* task raised standing as its result
gather(t) == [raised |-> FALSE, results |-> t.results]

\* all_products: the lists among the results, one after the other
RECURSIVE AllProducts(_)
AllProducts(results) ==
  IF results = <<>> THEN <<>>
  ELSE (IF Head(results).status = "returned" THEN Head(results).value ELSE <<>>)
       \o AllProducts(Tail(results))

\* search_all_suppliers from the return of gather on
CombineResults(gathered) ==
  IF gathered.raised THEN [raised |-> TRUE, value |-> <<>>]
  ELSE [raised |-> FALSE,
        value  |-> SortByPriceThenRating(
                     Deduplicate(AllProducts(gathered.results), 1, {}))]

\* HomeDepotSupplier.get_product_details: the first product of the id
ProductDetails(products, product_id) ==
  IF \E i \in 1..Len(products) : products[i].id = product_id
  THEN Some(products[CHOOSE i \in 1..Len(products) :
                       /\ products[i].id = product_id
                       /\ \A j \in 1..(i - 1) : products[j].id # product_id])
  ELSE None

\* get_product_by_id(product_id) with no supplier named: the first supplier
\* that knows the id answers
RECURSIVE get_product_by_id(_, _)
get_product_by_id(supplier_lists, product_id) ==
  IF supplier_lists = <<>> THEN None
  ELSE IF ProductDetails(Head(supplier_lists), product_id) # None
       THEN ProductDetails(Head(supplier_lists), product_id)
       ELSE get_product_by_id(Tail(supplier_lists), product_id)

\* alternatives.sort(key=lambda p: p.price): ascending and stable
RECURSIVE SortByPrice(_)
SortByPrice(alternatives) ==
  IF alternatives = <<>> THEN <<>>
  ELSE LET x      == alternatives[Len(alternatives)]
           sorted == SortByPrice(SubSeq(alternatives, 1, Len(alternatives) - 1))
           p      == Cardinality({j \in 1..Len(sorted) :
                                    sorted[j].price <= x.price})
       IN  SubSeq(sorted, 1, p) \o <<x>> \o SubSeq(sorted, p + 1, Len(sorted))

\* the alternatives with the original product left in
WithOriginal(alternatives, product) == alternatives

\* [p for p in alternatives if p.id != product.id]
WithoutOriginal(alternatives, product) ==
  SelectSeq(alternatives, LAMBDA p : p.id # product.id)

\* find_alternatives from the return of search_all_suppliers on;
\* budget_range is None or the pair <<min_price, max_price>>
FilterAlternatives(alternatives, product, budget_range) ==
  LET within(p) == /\ budget_range[1][1] <= p.price
                   /\ p.price <= budget_range[1][2]
      affordable == IF budget_range # None
                    THEN SelectSeq(alternatives, within)
                    ELSE alternatives
  IN  SortByPrice(WithoutOriginal(affordable, product))

\* the arguments find_alternatives searches with
AlternativesSearch(product) ==
  [query     |-> product.category \o <<" ">> \o product.subcategory,
   category  |-> Some(product.category),
   zip_code  |-> None,
   max_price |-> None,
   limit     |-> 10]

\* the budget_range the find_alternatives tool passes on
BudgetRange(min_price, max_price) ==
  IF min_price # None /\ max_price # None
  THEN Some(<<min_price[1], max_price[1]>>)
  ELSE None

Pex == <<"p", "e", "x">>

Sharkbite == <<"s", "h", "a", "r", "k", "b", "i", "t", "e">>

\* check_compatibility(product1_id, product2_id)
check_compatibility(supplier_lists, product1_id, product2_id) ==
  LET product1 == get_product_by_id(supplier_lists, product1_id)
      product2 == get_product_by_id(supplier_lists, product2_id)
      name1    == product1[1].name
      name2    == product2[1].name
      spec1    == product1[1].specifications
      spec2    == product2[1].specifications
      fits     == /\ Contains(Pex, Lower(name1)) \/ Contains(Pex, Lower(name2))
                  /\ Contains(Sharkbite, Lower(name1 \o name2))
      rated    == /\ product1[1].category = Electric
                  /\ product2[1].category = Electric
                  /\ spec1.voltage = spec2.voltage
                  /\ spec1.amperage = spec2.amperage
  IN  IF product1 = None \/ product2 = None
      THEN [error |-> "One or both products not found"]
      ELSE [compatible |-> fits \/ rated,
            confidence |-> IF rated THEN "medium"
                           ELSE IF fits THEN "high" ELSE "low",
            notes |->
              (IF fits THEN <<[text |-> "SharkBite fittings work with PEX"]>>
               ELSE <<>>)
              \o (IF rated
                  THEN <<[text |-> "Both rated for", voltage |-> spec1.voltage,
                          amperage |-> spec1.amperage]>>
                  ELSE <<>>)]

-----------------------------------------------------------------------------
(* The calls the model makes of the database *)

DatabaseQueries == {<<"w", "i", "r", "e">>, <<"o", "u", "t", "l", "e", "t">>}

\* limit_per_supplier: small limits, and the 5 of the search_materials tool
PerSupplierLimits == Limits \cup {5}

ProductIds ==
  {"HD-12345", "HD-12346", "HD-20001", "HD-20002", "HD-30001", "HD-40001",
   "HD-40002", "LW-1002", "HD-00000"}

\* the products alternatives are asked for: a wire, a receptacle, one that
\* only the second supplier sells and an id no supplier knows
OriginalIds == {"HD-12345", "HD-20001", "LW-1002", "HD-00000"}

\* min_price and max_price in cents: absent, $15 and $80
PriceBounds == {None, Some(1500), Some(8000)}

-----------------------------------------------------------------------------
(* The state machine: a ProductDatabase and its suppliers *)

\* after ProductDatabase(), with the one supplier of the source or with a
\* second one
InitDatabase ==
  /\ suppliers \in {<<InitialProducts>>, <<InitialProducts, OtherProducts>>}
  /\ tasks = <<>>
  /\ op = "idle"
  /\ args = <<>>
  /\ ret = <<>>
  /\ codes = <<>>
  /\ memo = None
  /\ data_file_found = FALSE
  /\ mock_products = <<>>
  /\ NoChat

\* search_all_suppliers is called and starts its tasks
SearchAllSuppliersCall ==
  /\ op = "idle"
  /\ \E query \in DatabaseQueries, category \in ProductCategories,
        zip_code \in ZipCodes, limit_per_supplier \in PerSupplierLimits :
       /\ op' = "search_all_suppliers"
       /\ args' = [query |-> query, category |-> category,
                   zip_code |-> zip_code, max_price |-> None,
                   limit |-> limit_per_supplier]
       /\ tasks' = NewTasks(args')
  /\ ret' = <<>>
  /\ UNCHANGED <<suppliers, codes, memo, data_file_found, mock_products,
                 chat_vars>>

\* the find_alternatives tool is called: an unknown product is reported at
\* once, for a known one find_alternatives starts the tasks of its search
FindAlternativesCall ==
  /\ op = "idle"
  /\ \E product_id \in OriginalIds, min_price \in PriceBounds,
        max_price \in PriceBounds :
       \E product \in {get_product_by_id(suppliers, product_id)} :
         /\ op' = "find_alternatives"
         /\ args' = [product_id |-> product_id, min_price |-> min_price,
                     max_price |-> max_price]
         /\ IF product = None
            THEN /\ tasks' = <<>>
                 /\ ret' = [raised |-> FALSE, found |-> FALSE]
            ELSE /\ tasks' = NewTasks(AlternativesSearch(product[1]))
                 /\ ret' = <<>>
  /\ UNCHANGED <<suppliers, codes, memo, data_file_found, mock_products,
                 chat_vars>>

\* the search of one supplier returns; the products it matched carry the
\* store location when a zip_code was given
SupplierReturns ==
  /\ tasks # <<>>
  /\ \E i \in 1..Len(suppliers) :
       /\ tasks.results[i].status = "pending"
       /\ \E call \in {search_products(suppliers[i], tasks.search.query,
                                         tasks.search.category,
                                         tasks.search.zip_code,
                                         tasks.search.max_price,
                                         tasks.search.limit)} :
            /\ suppliers' = [suppliers EXCEPT ![i] = call.mock_products]
            /\ tasks' = [tasks EXCEPT
                           !.results[i] = TaskReturned(call.value),
                           !.done = Append(@, i)]
  /\ UNCHANGED <<op, args, ret, codes, memo, data_file_found, mock_products,
                 chat_vars>>

\* the search of one supplier raises an exception
SupplierRaises ==
  /\ tasks # <<>>
  /\ \E i \in 1..Len(suppliers) :
       /\ tasks.results[i].status = "pending"
       /\ tasks' = [tasks EXCEPT !.results[i] = TaskRaised,
                                 !.done = Append(@, i)]
  /\ UNCHANGED <<op, args, ret, suppliers, codes, memo, data_file_found,
                 mock_products, chat_vars>>

\* every task has finished: gather returns and the call runs to its end
GatherReturns ==
  /\ tasks # <<>>
  /\ ~tasks.gathered
  /\ \A i \in 1..Len(suppliers) : tasks.results[i].status # "pending"
  /\ tasks' = [tasks EXCEPT !.gathered = TRUE]
  /\ \E found \in {CombineResults(gather(tasks))} :
       IF op = "search_all_suppliers" THEN ret' = found
       ELSE \E product \in {get_product_by_id(suppliers, args.product_id)[1]},
               budget_range \in {BudgetRange(args.min_price, args.max_price)} :
              \E alternatives \in {FilterAlternatives(found.value, product,
                                                      budget_range)} :
                ret' = IF found.raised THEN [raised |-> TRUE, found |-> TRUE]
                       ELSE [raised       |-> FALSE,
                             found        |-> TRUE,
                             product      |-> product,
                             budget_range |-> budget_range,
                             alternatives |-> alternatives,
                             listed       |-> SliceTo(alternatives, 5)]
  /\ UNCHANGED <<op, args, suppliers, codes, memo, data_file_found,
                 mock_products, chat_vars>>

\* one call of check_compatibility
CheckCompatibility ==
  /\ op = "idle"
  /\ \E product1_id \in ProductIds, product2_id \in ProductIds :
       /\ op' = "check_compatibility"
       /\ args' = [product1_id |-> product1_id, product2_id |-> product2_id]
       /\ ret' = check_compatibility(suppliers, product1_id, product2_id)
  /\ UNCHANGED <<suppliers, tasks, codes, memo, data_file_found,
                 mock_products, chat_vars>>

\* the caller has taken what the call returned
RespondDatabase ==
  /\ op # "idle"
  /\ IF tasks = <<>> THEN TRUE ELSE tasks.gathered
  /\ op' = "idle"
  /\ args' = <<>>
  /\ ret' = <<>>
  /\ tasks' = <<>>
  /\ UNCHANGED <<suppliers, codes, memo, data_file_found, mock_products,
                 chat_vars>>

NextDatabase ==
  \/ SearchAllSuppliersCall
  \/ FindAlternativesCall
  \/ SupplierReturns
  \/ SupplierRaises
  \/ GatherReturns
  \/ CheckCompatibility
  \/ RespondDatabase

SpecDatabase == InitDatabase /\ [][NextDatabase]_vars

-----------------------------------------------------------------------------
(* search_all_suppliers: what the caller receives *)

\* a search_all_suppliers call has run to its end
SearchFinished ==
  /\ op = "search_all_suppliers"
  /\ tasks # <<>>
  /\ tasks.gathered

\* the suppliers whose search returned, and those whose search raised
Succeeded == {i \in 1..Len(tasks.results) : tasks.results[i].status = "returned"}

Failed == {i \in 1..Len(tasks.results) : tasks.results[i].status = "raised"}

\* the name of a product, lower-cased and without surrounding whitespace
NormalisedName(p) == Strip(Lower(p.name))

\* the products the suppliers that succeeded returned, in supplier order
\* and then in the order of each supplier's result
RECURSIVE MergedFrom(_)
MergedFrom(i) ==
  IF i > Len(tasks.results) THEN <<>>
  ELSE (IF i \in Succeeded THEN tasks.results[i].value ELSE <<>>)
       \o MergedFrom(i + 1)

Merged == MergedFrom(1)

\* the place in the merged input of the product a returned product is
FirstAt(merged, p) == CHOOSE j \in 1..Len(merged) : merged[j] = p

\* C23: whatever subset of the supplier searches raises, search_all_suppliers
\* returns normally; every product of its result was returned by a supplier
\* that succeeded, every product such a supplier returned is in the result
\* under its normalised name, and the result is empty when all fail
C23_FailingSupplier ==
  SearchFinished =>
    /\ ~ret.raised
    /\ \A k \in 1..Len(ret.value) :
         \E i \in Succeeded : \E j \in 1..Len(tasks.results[i].value) :
           ret.value[k] = tasks.results[i].value[j]
    /\ \A i \in Succeeded : \A j \in 1..Len(tasks.results[i].value) :
         \E k \in 1..Len(ret.value) :
           NormalisedName(ret.value[k])
             = NormalisedName(tasks.results[i].value[j])
    /\ (Succeeded = {} => ret.value = <<>>)

\* one supplier failed, the other found products, and the products found
\* are returned
C23_Witness ==
  /\ SearchFinished
  /\ Failed # {}
  /\ Succeeded # {}
  /\ ~ret.raised
  /\ ret.value # <<>>

\* C24: no two products of the list search_all_suppliers returns have the
\* same normalised name; a returned product is the first of its normalised
\* name in the merged input, and every normalised name of the merged input
\* has its product in the list
C24_NoDuplicateNames ==
  (SearchFinished /\ ~ret.raised) =>
    /\ \A k, l \in 1..Len(ret.value) :
         NormalisedName(ret.value[k]) = NormalisedName(ret.value[l]) => k = l
    /\ \A k \in 1..Len(ret.value) : \E j \in 1..Len(Merged) :
         /\ ret.value[k] = Merged[j]
         /\ \A h \in 1..(j - 1) :
              NormalisedName(Merged[h]) # NormalisedName(Merged[j])
    /\ \A j \in 1..Len(Merged) : \E k \in 1..Len(ret.value) :
         NormalisedName(ret.value[k]) = NormalisedName(Merged[j])

\* two suppliers returned products whose names differ as written and are
\* equal when normalised; the first supplier's is the one returned
C24_Witness ==
  /\ SearchFinished
  /\ ~ret.raised
  /\ \E i, j \in 1..Len(Merged) :
       /\ i < j
       /\ Merged[i].name # Merged[j].name
       /\ NormalisedName(Merged[i]) = NormalisedName(Merged[j])
       /\ \E k \in 1..Len(ret.value) : ret.value[k] = Merged[i]

\* C25: in whatever order the supplier searches finish, the list returned
\* is the one list that is sorted by price ascending, among equal prices by
\* rating descending with unrated products last, and among equal prices
\* and ratings in supplier order; no supplier has more than
\* limit_per_supplier products in it
C25_SameListInAnyOrder ==
  (SearchFinished /\ ~ret.raised) =>
    /\ \A k, l \in 1..Len(ret.value) :
         k < l =>
           \/ ret.value[k].price < ret.value[l].price
           \/ /\ ret.value[k].price = ret.value[l].price
              /\ ret.value[k].rating # None
              /\ ret.value[l].rating # None
              /\ ret.value[k].rating[1] > ret.value[l].rating[1]
           \/ /\ ret.value[k].price = ret.value[l].price
              /\ ret.value[k].rating # None
              /\ ret.value[l].rating = None
           \/ /\ ret.value[k].price = ret.value[l].price
              /\ ret.value[k].rating = ret.value[l].rating
              /\ FirstAt(Merged, ret.value[k]) < FirstAt(Merged, ret.value[l])
    /\ \A i \in 1..Len(suppliers) :
         Cardinality({k \in 1..Len(ret.value) :
                        \E j \in 1..Len(suppliers[i]) :
                          suppliers[i][j].id = ret.value[k].id})
           <= args.limit

\* the second supplier finished before the first, both returned a product
\* of the same price and rating, an unrated product of that price was
\* returned too, and a supplier matched more products than the limit
C25_Witness ==
  /\ SearchFinished
  /\ ~ret.raised
  /\ tasks.done = <<2, 1>>
  /\ \E k, l, u \in 1..Len(ret.value) :
       /\ k < l /\ l < u
       /\ ret.value[k].price = ret.value[l].price
       /\ ret.value[k].rating = ret.value[l].rating
       /\ ret.value[u].price = ret.value[l].price
       /\ ret.value[u].rating = None
       /\ ret.value[k].id = "HD-12346"
       /\ ret.value[l].id = "LW-1002"
  /\ args.limit = 2
  /\ Len(tasks.results[2].value) = 2

-----------------------------------------------------------------------------
(* find_alternatives and check_compatibility: what the caller receives *)

\* the find_alternatives tool has found the product and find_alternatives
\* has returned
AlternativesFound ==
  /\ op = "find_alternatives"
  /\ tasks # <<>>
  /\ tasks.gathered
  /\ ret.found
  /\ ~ret.raised

\* C26: find_alternatives(product, budget_range) returns no product of the
\* original's id, only products of the original's category, only products
\* with min_price <= price <= max_price when a budget_range is given, and
\* returns them with prices ascending
C26_Alternatives ==
  AlternativesFound =>
    /\ \A k \in 1..Len(ret.alternatives) :
         /\ ret.alternatives[k].id # ret.product.id
         /\ ret.alternatives[k].category = ret.product.category
         /\ ret.budget_range # None =>
              /\ ret.budget_range[1][1] <= ret.alternatives[k].price
              /\ ret.alternatives[k].price <= ret.budget_range[1][2]
    /\ \A k, l \in 1..Len(ret.alternatives) :
         k < l => ret.alternatives[k].price <= ret.alternatives[l].price

\* the search found the original product, its price is within the budget
\* range given, a product outside the range was found too, and two
\* alternatives of different prices are returned
C26_Witness ==
  /\ AlternativesFound
  /\ ret.budget_range # None
  /\ \E j \in 1..Len(Merged) :
       /\ Merged[j].id = ret.product.id
       /\ ret.budget_range[1][1] <= Merged[j].price
       /\ Merged[j].price <= ret.budget_range[1][2]
  /\ \E j \in 1..Len(Merged) : Merged[j].price > ret.budget_range[1][2]
  /\ \E k, l \in 1..Len(ret.alternatives) :
       ret.alternatives[k].price < ret.alternatives[l].price

\* C27: the find_alternatives tool lists no alternative dearer than a
\* max_price it is given and none cheaper than a min_price it is given,
\* whether or not the other bound is given
C27_EachBoundHonoured ==
  AlternativesFound =>
    \A k \in 1..Len(ret.listed) :
      /\ args.max_price # None => ret.listed[k].price <= args.max_price[1]
      /\ args.min_price # None => args.min_price[1] <= ret.listed[k].price

\* C28: check_compatibility returns an error for an unknown id, and reports
\* two electrical products compatible on electrical grounds only when both
\* declare a voltage and an amperage and the declared values are equal
C28_DeclaredRatingsOnly ==
  op = "check_compatibility" =>
    IF \/ get_product_by_id(suppliers, args.product1_id) = None
       \/ get_product_by_id(suppliers, args.product2_id) = None
    THEN "error" \in DOMAIN ret
    ELSE /\ "error" \notin DOMAIN ret
         /\ LET spec1 == get_product_by_id(suppliers, args.product1_id)[1].specifications
                spec2 == get_product_by_id(suppliers, args.product2_id)[1].specifications
            IN  (ret.compatible /\ ret.confidence = "medium") =>
                  /\ spec1.voltage # None
                  /\ spec1.amperage # None
                  /\ spec1.voltage = spec2.voltage
                  /\ spec1.amperage = spec2.amperage

-----------------------------------------------------------------------------
(***************************************************************************)
(* Part 5: server.py, call_tool of the material-specs server.              *)
(*                                                                         *)
(* The arguments are a mapping from keys to JSON values: numbers, texts    *)
(* and, for the items of a shopping list, lists of mappings.  A handler    *)
(* either returns its formatted text or raises; Handle tells which, and    *)
(* call_tool is the try/except around it.                                  *)
(***************************************************************************)

Number(n) == [kind |-> "number", n |-> n]

Text(s) == [kind |-> "text", s |-> s]

Items(list) == [kind |-> "list", items |-> list]

\* the numbers and texts an argument is given as: prices in cents, the id
\* of a product and a text that is no id
ArgumentValues == {Number(0), Number(1500), Text("HD-12345"), Text("wire")}

\* the mappings that give values to some of the keys
Mappings(keys) == UNION {[present -> ArgumentValues] : present \in SUBSET keys}

ToolNames ==
  {"search_materials", "get_product_details", "find_alternatives",
   "check_compatibility", "calculate_wire_needed", "calculate_outlets_needed",
   "calculate_tile_needed", "calculate_paint_needed", "calculate_deck_lumber",
   "calculate_pex_pipe", "create_shopping_list"}

\* the keys the branch of a tool reads
ArgumentKeys(name) ==
  CASE name = "search_materials" -> {"query", "category", "max_price"}
    [] name = "get_product_details" -> {"product_id"}
    [] name = "find_alternatives" -> {"product_id", "min_price", "max_price"}
    [] name = "check_compatibility" -> {"product1_id", "product2_id"}
    [] name = "calculate_wire_needed" -> {"circuit_length_feet", "num_circuits"}
    [] name = "calculate_outlets_needed" -> {"room_perimeter_feet", "room_type"}
    [] name = "calculate_tile_needed" ->
         {"area_sq_ft", "tile_width_inches", "tile_height_inches"}
    [] name = "calculate_paint_needed" -> {"area_sq_ft", "num_coats"}
    [] name = "calculate_deck_lumber" -> {"deck_length_ft", "deck_width_ft"}
    [] name = "calculate_pex_pipe" -> {"num_fixtures", "manifold_system"}
    [] OTHER -> {"zip_code"}

\* the arguments a tool is called with; a shopping list has its items
\* absent, given as a number or a text, or given as a list of at most one
\* item
ArgumentsOf(name) ==
  IF name = "create_shopping_list"
  THEN Mappings({"items", "zip_code"})
       \cup {[items |-> Items(<<>>)]}
       \cup {[items |-> Items(<<item>>)] :
               item \in Mappings({"product_id", "quantity"})}
  ELSE Mappings(ArgumentKeys(name))

IsNumber(o) == o # None /\ o[1].kind = "number"

\* the exception the filter of find_alternatives (product_database.py 118
\* to 123) ends in, if any: min_price <= p.price <= max_price compares
\* min_price first and max_price only when that comparison holds
FilterRaises(alternatives, min_price, max_price) ==
  /\ min_price # None
  /\ max_price # None
  /\ \E k \in 1..Len(alternatives) :
       \/ min_price[1].kind # "number"
       \/ /\ min_price[1].n <= alternatives[k].price
          /\ max_price[1].kind # "number"

\* the loop of create_shopping_list ends in an exception: the items are no
\* list, or a product that is found has a quantity that is no number
ShoppingListRaises(supplier_lists, items) ==
  CASE items.kind = "number" -> TRUE
    [] items.kind = "text" -> TRUE
    [] OTHER ->
         \E i \in 1..Len(items.items) :
           LET product_id == Get(items.items[i], "product_id")
               quantity   == GetOr(items.items[i], "quantity", Number(1))
           IN  /\ product_id # None
               /\ product_id[1].kind = "text"
               /\ get_product_by_id(supplier_lists, product_id[1].s) # None
               /\ quantity.kind # "number"

\* the exception the branch of a known tool ends in, "" when it returns
Raised(supplier_lists, name, arguments) ==
  LET arg(key) == Get(arguments, key)
      unless_numbers(keys) ==
        IF \A key \in keys : IsNumber(arg(key)) THEN "" ELSE "TypeError"
      product ==
        IF arg("product_id") # None /\ arg("product_id")[1].kind = "text"
        THEN get_product_by_id(supplier_lists, arg("product_id")[1].s)
        ELSE None
  IN  CASE name = "search_materials" -> ""
        [] name = "get_product_details" -> ""
        [] name = "find_alternatives" ->
             IF product = None THEN ""
             ELSE IF FilterRaises(
                       search_all_suppliers(
                         supplier_lists[1],
                         AlternativesSearch(product[1]).query,
                         AlternativesSearch(product[1]).category,
                         None, None, 10).value,
                       arg("min_price"), arg("max_price"))
                  THEN "TypeError" ELSE ""
        [] name = "check_compatibility" -> ""
        [] name = "calculate_wire_needed" ->
             IF /\ IsNumber(arg("circuit_length_feet"))
                /\ IsNumber(Some(GetOr(arguments, "num_circuits", Number(1))))
             THEN "" ELSE "TypeError"
        [] name = "calculate_outlets_needed" ->
             unless_numbers({"room_perimeter_feet"})
        [] name = "calculate_tile_needed" ->
             LET width  == GetOr(arguments, "tile_width_inches", Number(12))
                 height == GetOr(arguments, "tile_height_inches", Number(12))
             IN  IF width.kind # "number" \/ height.kind # "number"
                 THEN "TypeError"
                 ELSE IF ~IsNumber(arg("area_sq_ft")) THEN "TypeError"
                 ELSE IF width.n = 0 \/ height.n = 0 THEN "ZeroDivisionError"
                 ELSE ""
        [] name = "calculate_paint_needed" ->
             IF /\ IsNumber(arg("area_sq_ft"))
                /\ IsNumber(Some(GetOr(arguments, "num_coats", Number(2))))
             THEN "" ELSE "TypeError"
        [] name = "calculate_deck_lumber" ->
             unless_numbers({"deck_length_ft", "deck_width_ft"})
        [] name = "calculate_pex_pipe" -> unless_numbers({"num_fixtures"})
        [] name = "create_shopping_list" ->
             IF ShoppingListRaises(supplier_lists,
                                   GetOr(arguments, "items", Items(<<>>)))
             THEN (IF GetOr(arguments, "items", Items(<<>>)).kind = "text"
                   THEN "AttributeError" ELSE "TypeError")
             ELSE ""

TextContent(text) == [type |-> "text", text |-> text]

\* the body of the try: the branch of the tool returns its text, the else
\* branch "Unknown tool: <name>", or an exception is raised
Handle(supplier_lists, name, arguments) ==
  IF name \notin ToolNames
  THEN [raised |-> "",
        value  |-> <<TextContent([kind |-> "Unknown tool", name |-> name])>>]
  ELSE IF Raised(supplier_lists, name, arguments) # ""
  THEN [raised |-> Raised(supplier_lists, name, arguments), value |-> <<>>]
  ELSE [raised |-> "",
        value  |-> <<TextContent([kind |-> "formatted", name |-> name])>>]

\* a call_tool without the except clause
Unguarded(supplier_lists, name, arguments) ==
  Handle(supplier_lists, name, arguments)

\* call_tool(name, arguments): what the try returns, or what the except
\* clause returns for the exception raised
call_tool(supplier_lists, name, arguments) ==
  IF Handle(supplier_lists, name, arguments).raised # ""
  THEN [raised |-> "",
        value  |-> <<TextContent(
                       [kind |-> "Error executing tool", name |-> name,
                        e |-> Handle(supplier_lists, name, arguments).raised])>>]
  ELSE Handle(supplier_lists, name, arguments)

-----------------------------------------------------------------------------
(* The state machine: the server and its calls *)

\* the names a tool is called by: the tools listed and one that is not
CalledNames == ToolNames \cup {"calculate_concrete"}

\* after the module is loaded: product_db = ProductDatabase()
InitTools ==
  /\ suppliers = <<InitialProducts>>
  /\ tasks = <<>>
  /\ op = "idle"
  /\ args = <<>>
  /\ ret = <<>>
  /\ codes = <<>>
  /\ memo = None
  /\ data_file_found = FALSE
  /\ mock_products = <<>>
  /\ NoChat

\* one call of call_tool
CallTool ==
  /\ op = "idle"
  /\ \E name \in CalledNames : \E arguments \in ArgumentsOf(name) :
       /\ op' = "call_tool"
       /\ args' = [name |-> name, arguments |-> arguments]
       /\ ret' = call_tool(suppliers, name, arguments)
  /\ UNCHANGED <<suppliers, tasks, codes, memo, data_file_found,
                 mock_products, chat_vars>>

\* the client has taken the answer
RespondTools ==
  /\ op = "call_tool"
  /\ op' = "idle"
  /\ args' = <<>>
  /\ ret' = <<>>
  /\ UNCHANGED <<suppliers, tasks, codes, memo, data_file_found,
                 mock_products, chat_vars>>

NextTools == CallTool \/ RespondTools

SpecTools == InitTools /\ [][NextTools]_vars

\* C29: whatever the name and the arguments, no exception leaves call_tool
\* and it returns a list of one text item: "Unknown tool: <name>" for a
\* name that is no tool, "Error executing tool <name>: ..." when the branch
\* of the tool raised, and the formatted result otherwise
C29_NoExceptionEscapes ==
  op = "call_tool" =>
    /\ ret.raised = ""
    /\ Len(ret.value) = 1
    /\ ret.value[1].type = "text"
    /\ ret.value[1].text.name = args.name
    /\ ret.value[1].text.kind =
         IF args.name \notin ToolNames THEN "Unknown tool"
         ELSE IF Raised(suppliers, args.name, args.arguments) # ""
         THEN "Error executing tool"
         ELSE "formatted"

\* a calculator was called without the argument it needs, its branch
\* raised, and the call returned the error as its one text item
C29_Witness ==
  /\ op = "call_tool"
  /\ args.name = "calculate_wire_needed"
  /\ "circuit_length_feet" \notin DOMAIN args.arguments
  /\ Raised(suppliers, args.name, args.arguments) = "TypeError"
  /\ ret.raised = ""
  /\ ret.value = <<TextContent([kind |-> "Error executing tool",
                                name |-> "calculate_wire_needed",
                                e |-> "TypeError"])>>

-----------------------------------------------------------------------------
(***************************************************************************)
(* Part 6: test_web_interface.py, chat_with_claude.                        *)
(*                                                                         *)
(* response is what client.messages.create returned last, content_block    *)
(* the place of the for loop in response.content, pc the place of the      *)
(* call: "idle" before it, "while" at the test of the loop, "for" within   *)
(* the blocks of a response, "returned" after it.  model_calls counts the  *)
(* calls of client.messages.create and executed lists the ids of the       *)
(* tool_use blocks execute_tool was awaited for since the last of them.    *)
(***************************************************************************)

\* the blocks a response is made of
TextBlock == [type |-> "text", text |-> "Let me check."]

ToolUseA == [type |-> "tool_use", id |-> "toolu_A", name |-> "search_building_codes"]

ToolUseB == [type |-> "tool_use", id |-> "toolu_B", name |-> "calculate_wire_needed"]

ThinkingBlock == [type |-> "thinking"]

\* the contents of the responses of the model
ResponseContents ==
  { <<>>, <<TextBlock>>, <<ToolUseA>>, <<TextBlock, ToolUseA, ToolUseB>>,
    <<ToolUseB, ThinkingBlock, ToolUseA>>, <<ThinkingBlock, TextBlock>> }

StopReasons == {"tool_use", "end_turn", "max_tokens"}

\* tool_use rounds of one chat the model is followed through
MaxRounds == 2

\* what client.messages.create may return at the call after calls calls
Responses(calls) ==
  [stop_reason : IF calls > MaxRounds THEN StopReasons \ {"tool_use"}
                 ELSE StopReasons,
   content     : ResponseContents]

\* the while loop goes on whenever the response holds a tool_use block
ContainsToolUse(r) ==
  \E i \in 1..Len(r.content) : r.content[i].type = "tool_use"

\* while response.stop_reason == "tool_use"
WhileCondition(r) == r.stop_reason = "tool_use"

\* the dict appended to assistant_content for a tool_use block
ToolUseDict(block) == [type |-> "tool_use", id |-> block.id, name |-> block.name]

\* the dict appended to tool_results: the output of execute_tool under the
\* id of the block
ToolResultDict(block) ==
  [type |-> "tool_result", tool_use_id |-> block.id,
   content |-> [output_of |-> block.name]]

TextDict(block) == [type |-> "text", text |-> block.text]

\* the text dicts of the final response, from block i on
RECURSIVE FinalContent(_, _)
FinalContent(content, i) ==
  IF i > Len(content) THEN <<>>
  ELSE (IF "text" \in DOMAIN content[i] THEN <<TextDict(content[i])>> ELSE <<>>)
       \o FinalContent(content, i + 1)

UserMessage == [role |-> "user", content |-> "How many outlets?"]

\* what an earlier chat left in the history
EarlierChat ==
  << [role |-> "user", content |-> "Hello"],
     [role |-> "assistant", content |-> <<[type |-> "text", text |-> "Hi"]>>] >>

-----------------------------------------------------------------------------
(* The state machine: one call of chat_with_claude *)

InitChat ==
  /\ conversation_history \in {<<>>, EarlierChat}
  /\ response = <<>>
  /\ assistant_content = <<>>
  /\ tool_results = <<>>
  /\ content_block = 0
  /\ executed = <<>>
  /\ model_calls = 0
  /\ pc = "idle"
  /\ op = "idle"
  /\ args = <<>>
  /\ ret = <<>>
  /\ codes = <<>>
  /\ memo = None
  /\ data_file_found = FALSE
  /\ mock_products = <<>>
  /\ NoDatabase

\* lines 278 to 293: the user message is appended and the model is called
ChatWithClaude ==
  /\ pc = "idle"
  /\ conversation_history' = Append(conversation_history, UserMessage)
  /\ model_calls' = model_calls + 1
  /\ response' \in Responses(model_calls')
  /\ executed' = <<>>
  /\ pc' = "while"
  /\ UNCHANGED <<assistant_content, tool_results, content_block, codes, op,
                 args, ret, memo, data_file_found, mock_products,
                 database_vars>>

\* lines 296 to 301: the loop is entered
EnterLoop ==
  /\ pc = "while"
  /\ WhileCondition(response)
  /\ tool_results' = <<>>
  /\ assistant_content' = <<>>
  /\ content_block' = 1
  /\ pc' = "for"
  /\ UNCHANGED <<conversation_history, response, executed, model_calls,
                 codes, op, args, ret, memo, data_file_found, mock_products,
                 database_vars>>

\* lines 302 to 324: a tool_use block; the tool is executed
ToolUseBlock ==
  /\ pc = "for"
  /\ content_block <= Len(response.content)
  /\ response.content[content_block].type = "tool_use"
  /\ executed' = Append(executed, response.content[content_block].id)
  /\ assistant_content' =
       Append(assistant_content, ToolUseDict(response.content[content_block]))
  /\ tool_results' =
       Append(tool_results, ToolResultDict(response.content[content_block]))
  /\ content_block' = content_block + 1
  /\ UNCHANGED <<conversation_history, response, model_calls, pc, codes, op,
                 args, ret, memo, data_file_found, mock_products,
                 database_vars>>

\* lines 325 to 330: a text block
TextBlockStep ==
  /\ pc = "for"
  /\ content_block <= Len(response.content)
  /\ response.content[content_block].type = "text"
  /\ assistant_content' =
       Append(assistant_content, TextDict(response.content[content_block]))
  /\ content_block' = content_block + 1
  /\ UNCHANGED <<conversation_history, response, tool_results, executed,
                 model_calls, pc, codes, op, args, ret, memo, data_file_found,
                 mock_products, database_vars>>

\* a block of another type is passed over
OtherBlock ==
  /\ pc = "for"
  /\ content_block <= Len(response.content)
  /\ response.content[content_block].type \notin {"tool_use", "text"}
  /\ content_block' = content_block + 1
  /\ UNCHANGED <<conversation_history, response, assistant_content,
                 tool_results, executed, model_calls, pc, codes, op, args,
                 ret, memo, data_file_found, mock_products, database_vars>>

\* lines 332 to 350: the blocks are done; the two messages are appended and
\* the model is called again
ContinueConversation ==
  /\ pc = "for"
  /\ content_block > Len(response.content)
  /\ conversation_history' =
       conversation_history
         \o << [role |-> "assistant", content |-> assistant_content],
               [role |-> "user", content |-> tool_results] >>
  /\ model_calls' = model_calls + 1
  /\ response' \in Responses(model_calls')
  /\ executed' = <<>>
  /\ pc' = "while"
  /\ UNCHANGED <<assistant_content, tool_results, content_block, codes, op,
                 args, ret, memo, data_file_found, mock_products,
                 database_vars>>

\* lines 352 to 376: the loop is left; the final assistant message is
\* appended (its content the text dicts, or the empty final_response) and
\* the call returns
FinalResponse ==
  /\ pc = "while"
  /\ ~WhileCondition(response)
  /\ assistant_content' = FinalContent(response.content, 1)
  /\ conversation_history' =
       Append(conversation_history,
              [role |-> "assistant", content |-> assistant_content'])
  /\ pc' = "returned"
  /\ UNCHANGED <<response, tool_results, content_block, executed,
                 model_calls, codes, op, args, ret, memo, data_file_found,
                 mock_products, database_vars>>

NextChat ==
  \/ ChatWithClaude
  \/ EnterLoop
  \/ ToolUseBlock
  \/ TextBlockStep
  \/ OtherBlock
  \/ ContinueConversation
  \/ FinalResponse

SpecChat == InitChat /\ [][NextChat]_vars

-----------------------------------------------------------------------------
(* chat_with_claude: the order of messages, tools and model calls *)

\* the ids of the blocks of a type in a content, in order
RECURSIVE IdsOf(_, _, _)
IdsOf(content, type, field) ==
  IF content = <<>> THEN <<>>
  ELSE (IF Head(content).type = type THEN <<Head(content)[field]>> ELSE <<>>)
       \o IdsOf(Tail(content), type, field)

\* a step that calls the model within the loop
CallsModelAgain == pc = "for" /\ model_calls' # model_calls

\* a step that handles a response whose stop_reason is tool_use appends an
\* assistant message and then a user message whose tool_results are those
\* of the tool_use blocks of the response, in order and by id, after every
\* one of these blocks has been executed
OneExchangePerToolUse ==
  CallsModelAgain =>
    /\ response.stop_reason = "tool_use"
    /\ executed = IdsOf(response.content, "tool_use", "id")
    /\ Len(conversation_history') = Len(conversation_history) + 2
    /\ SubSeq(conversation_history', 1, Len(conversation_history))
         = conversation_history
    /\ LET assistant == conversation_history'[Len(conversation_history) + 1]
           user      == conversation_history'[Len(conversation_history) + 2]
       IN  /\ assistant.role = "assistant"
           /\ user.role = "user"
           /\ IdsOf(assistant.content, "tool_use", "id")
                = IdsOf(response.content, "tool_use", "id")
           /\ Len(user.content)
                = Len(IdsOf(assistant.content, "tool_use", "id"))
           /\ IdsOf(user.content, "tool_result", "tool_use_id")
                = IdsOf(assistant.content, "tool_use", "id")

\* C30: a response with stop_reason tool_use, and no other, is followed by
\* a round of the loop; the round appends one assistant message and one
\* user message holding one tool_result per tool_use block of the assistant
\* message, in order and with its id; the model is not called and the
\* history not touched while blocks of the response are left; a response
\* with another stop_reason ends the loop and one final assistant message
\* is appended
C30_ToolUseLoop ==
  [][ /\ OneExchangePerToolUse
      /\ (pc = "while" /\ response.stop_reason = "tool_use") => pc' = "for"
      /\ (pc = "while" /\ response.stop_reason # "tool_use") =>
           /\ pc' = "returned"
           /\ Len(conversation_history') = Len(conversation_history) + 1
           /\ SubSeq(conversation_history', 1, Len(conversation_history))
                = conversation_history
           /\ conversation_history'[Len(conversation_history')].role
                = "assistant"
      /\ (pc = "for" /\ content_block <= Len(response.content)) =>
           /\ model_calls' = model_calls
           /\ response' = response
           /\ conversation_history' = conversation_history
      /\ (pc = "for" /\ pc' # "for") => CallsModelAgain
    ]_vars

\* a chat has returned after two rounds of tools: the history holds the
\* assistant message with the tool_use blocks A and B after a text, then
\* the user message with the results of A and B, and ends with the final
\* assistant message
C30_Witness ==
  /\ pc = "returned"
  /\ model_calls = 3
  /\ Len(conversation_history) = 6
  /\ conversation_history[2].role = "assistant"
  /\ IdsOf(conversation_history[2].content, "tool_use", "id")
       = <<"toolu_A", "toolu_B">>
  /\ conversation_history[2].content[1].type = "text"
  /\ conversation_history[3].role = "user"
  /\ IdsOf(conversation_history[3].content, "tool_result", "tool_use_id")
       = <<"toolu_A", "toolu_B">>
  /\ conversation_history[6].role = "assistant"
  /\ response.stop_reason = "max_tokens"

====
